---- MODULE Spec2Model ----
(***************************************************************************)
(* A model of splitCollectionChunks (src/msChunkSplit.js, lines 322-735):  *)
(* one run of the script against a sharded cluster.  The script's local    *)
(* variables and arrays are the state; every remote call (to the config    *)
(* database through mongos, or to a shard) is one step, its response drawn *)
(* from a small set.  The routing catalog (config.chunks) is part of the   *)
(* state, so that a split changes it and a concurrent actor can change it  *)
(* between two remote calls of the run.                                    *)
(***************************************************************************)
EXTENDS Integers, Sequences, FiniteSets, TLC

VARIABLES
    \* ---- inputs and configurable globals of the run
    DO_SPLIT,                         \* argument DO_SPLIT
    SAMPLE,                           \* the double m / 2^e as <<m, e>>
    OPTIMIZE_CHUNK_SIZE_CALCULATION,
    DOUBLECHECK_CHUNK_SIZE,
    \* ---- the cluster
    nsPresent,                        \* config.collections holds a document for NS
    chunks,                           \* config.chunks documents of NS
    epoch,                            \* the collection's epoch
    concOps,                          \* number of catalog changes made by other actors
    conc,                             \* history: those changes, and when they came
    \* ---- the script
    pc,                               \* position of the run
    step,                             \* 1 or 5: which discovery is running
    MAX_CHUNK_SIZE,
    count,                            \* local of getDatasizeArgs
    CHUNKS,
    CHUNKS_TO_SPLIT,
    i,                                \* position of the running forEach
    chunkSize,                        \* local of checkChunkSize between its two queries
    shardVersion,                     \* local of the step 4 callback
    con,                              \* position of the forEach of isAuthorizedToSplit
    isAllConnectionsAuthorized,       \* local of isAuthorizedToSplit
    couldSplitCount,
    canSplitCount,
    wasChunks,
    nowChunks,
    \* ---- history
    calls                             \* the remote calls of the run, in order

vars == <<DO_SPLIT, SAMPLE, OPTIMIZE_CHUNK_SIZE_CALCULATION, DOUBLECHECK_CHUNK_SIZE,
          nsPresent, chunks, epoch, concOps, conc, pc, step, MAX_CHUNK_SIZE, count, CHUNKS,
          CHUNKS_TO_SPLIT, i, chunkSize, shardVersion, con, isAllConnectionsAuthorized,
          couldSplitCount, canSplitCount, wasChunks, nowChunks, calls>>

config == <<DO_SPLIT, SAMPLE, OPTIMIZE_CHUNK_SIZE_CALCULATION, DOUBLECHECK_CHUNK_SIZE>>
cluster == <<nsPresent, chunks, epoch, concOps, conc>>
authorization == <<con, isAllConnectionsAuthorized>>

----------------------------------------------------------------------------
(* Bounds of the model *)

\* Shard keys are 0 .. KeyMax; a chunk is a range [min, max) of them.
KeyMax == 4

\* Catalog changes other actors may make during one run.
MaxConcurrentOps == 2

\* The number of chunks of the namespace when a run starts, at most.
MaxInitChunks == 3

\* The same, for a run with other actors, which can add chunks.
MaxConcInitChunks == 2

----------------------------------------------------------------------------
(* Values *)

NS == "test.s"
KeyPattern == "k"
CsrsUri == "csrs"
ShardSeq == <<"sh_0", "sh_1">>
Shards == {ShardSeq[k] : k \in 1..Len(ShardSeq)}

Min(S) == CHOOSE x \in S : \A y \in S : x <= y
Max(S) == CHOOSE x \in S : \A y \in S : y <= x

\* hasOwnProperty
Has(r, f) == f \in DOMAIN r

----------------------------------------------------------------------------
(* The routing catalog *)

\* The collection version: the highest lastmod of its chunks.
CollVersion(chs) == IF chs = {} THEN 0 ELSE Max({c.lastmod : c \in chs})

\* The contiguous partition of [0, KeyMax) whose inner boundaries are B; the k-th
\* chunk in key order lives on shard k mod 2 and was last modified at version k.
Partition(B) ==
    LET pts == B \cup {0, KeyMax}
    IN { [min |-> b,
          max |-> Min({x \in pts : x > b}),
          shard |-> ShardSeq[(Cardinality({x \in pts : x <= b}) % Len(ShardSeq)) + 1],
          lastmod |-> Cardinality({x \in pts : x <= b})] : b \in pts \ {KeyMax} }

\* The catalogs a run may start on: no chunk, or a partition of the key space
\* into at most MaxInitChunks chunks.
InitChunkSets ==
    {{}} \cup {Partition(B) : B \in {C \in SUBSET (1..(KeyMax - 1)) :
                                         Cardinality(C) < MaxInitChunks}}

----------------------------------------------------------------------------
(* Program constants and pure functions of the script *)

\* SPLIT_THRESHOLD_RATIO = 0.9, kept as the fraction 9/10.
SPLIT_THRESHOLD_RATIO_NUM == 9
SPLIT_THRESHOLD_RATIO_DEN == 10

\* The default maximum chunk size, in MiB.
DefaultChunkSizeMiB == 64

\* size >= SPLIT_THRESHOLD and size > SPLIT_THRESHOLD, where
\* SPLIT_THRESHOLD = max * SPLIT_THRESHOLD_RATIO (a fraction in general).
AtOrAboveThreshold(size, max) ==
    size * SPLIT_THRESHOLD_RATIO_DEN >= max * SPLIT_THRESHOLD_RATIO_NUM
AboveThreshold(size, max) ==
    size * SPLIT_THRESHOLD_RATIO_DEN > max * SPLIT_THRESHOLD_RATIO_NUM

\* What serverStatus may answer to getCsrsUri: with or without the sharding
\* section and its configsvrConnectionString.
ServerStatusResponses ==
    { [ok |-> 1],
      [ok |-> 1, sharding |-> [maxChunkSizeInBytes |-> 0]],
      [ok |-> 1, sharding |-> [configsvrConnectionString |-> CsrsUri]] }

\* The assertions of getCsrsUri pass.
getCsrsUriOk(res) ==
    Has(res, "sharding") /\ Has(res.sharding, "configsvrConnectionString")

getCsrsUri(res) == res.sharding.configsvrConnectionString

\* CONFIGSVR, once getCsrsUri has returned (line 427).
CONFIGSVR == getCsrsUri([ok |-> 1, sharding |-> [configsvrConnectionString |-> CsrsUri]])

\* What config.settings.count({_id: "chunksize"}) may answer.
ChunksizeCounts == {0, 1}

\* What config.settings.findOne for the chunksize document may answer: null
\* (present is FALSE), a document without value, or one with a value (in MiB).
ChunksizeSettings ==
    {[present |-> FALSE], [present |-> TRUE]} \cup
    {[present |-> TRUE, value |-> v] : v \in {-1, 0, 10}}

\* The assertions of getChunkSize pass.
getChunkSizeOk(setting) ==
    setting.present /\ Has(setting, "value") /\ 0 <= setting.value

\* What getChunkSize returns when the count is not 0, and when it is 0.
getChunkSize(setting) == setting.value * 1024 * 1024
getChunkSizeDefault == DefaultChunkSizeMiB * 1024 * 1024

\* What getParameter with clusterAuthMode may answer on the router.
GetParameterResponses ==
    { [ok |-> 0],
      [ok |-> 1, clusterAuthMode |-> "keyFile"],
      [ok |-> 1, clusterAuthMode |-> "undefined"] }

\* The assertions of checkAuthEnabled pass.
checkAuthEnabledOk(res) == Has(res, "ok") /\ res.ok = 1

\* What checkAuthEnabled returns: "true", "false", or "null" when the mode is
\* absent or is none of the five it knows.
checkAuthEnabled(res) ==
    IF ~Has(res, "clusterAuthMode") THEN "null"
    ELSE IF res.clusterAuthMode \in {"keyFile", "sendKeyFile", "sendX509", "x509"}
    THEN "true"
    ELSE IF res.clusterAuthMode = "undefined" THEN "false"
    ELSE "null"

\* isAuthEnabled != false (line 437): null counts as enabled.
NeedsAuth(isAuthEnabled) == isAuthEnabled # "false"

\* What auth(AUTH_CRED) may return on a shard connection.
AuthResults == {0, 1}

\* Mutant: the comparison that raises the sample size to 1 is inverted.
SampleValue_Inverted(cnt, percentage) ==
    IF cnt * percentage[1] > 2 ^ percentage[2] THEN <<1, 1>>
    ELSE <<cnt * percentage[1], 2 ^ percentage[2]>>

\* The size argument of $sample as the fraction <<numerator, denominator>>:
\* count * percentage, raised to 1 when below 1 and not rounded.  SAMPLE is
\* a double, the dyadic fraction m / 2^e, written <<m, e>>; the product of
\* line 459 is a double too, and it is count * m / 2^e exactly as long as
\* count * m is below 2^53, which holds for every integer of the model.
SampleValue(cnt, percentage) ==
    IF cnt * percentage[1] < 2 ^ percentage[2] THEN <<1, 1>>
    ELSE <<cnt * percentage[1], 2 ^ percentage[2]>>

\* SAMPLE = 1: every chunk of the namespace is asked for.
FullSample == <<1, 0>>

\* The document getDatasizeArgs builds from a config.chunks document.
newDoc(doc, estimate) ==
    [datasize |-> NS, keyPattern |-> KeyPattern, min |-> doc.min, max |-> doc.max,
     estimate |-> estimate, shard |-> doc.shard]

\* checkChunkSize asks for a second, exact size.
NeedsDoubleCheck(first, max, optimize, doublecheck) ==
    AtOrAboveThreshold(first, max) /\ optimize = TRUE /\ doublecheck = TRUE

\* The value checkChunkSize returns, from the size of its first response and
\* (when it asked twice) the size of its second response.
checkChunkSize(first, second, max, optimize, doublecheck) ==
    IF AtOrAboveThreshold(first, max)
    THEN IF optimize = TRUE /\ doublecheck = TRUE
         THEN IF AboveThreshold(first, max) THEN second ELSE -1
         ELSE first
    ELSE -1

\* The step 2 callback keeps a chunk whose checkChunkSize result is positive.
IsCandidate(size) == size > 0

RECURSIVE getCouldSplitChunkCounts(_)
getCouldSplitChunkCounts(chunkArray) ==
    IF chunkArray = <<>> THEN 0
    ELSE (IF Head(chunkArray).chunkSize # -1 THEN 1 ELSE 0)
         + getCouldSplitChunkCounts(Tail(chunkArray))

\* c.canSplit == true
CanSplit(c) == Has(c, "canSplit") /\ c.canSplit = TRUE

RECURSIVE getSplitChunkCounts(_)
getSplitChunkCounts(chunkArray) ==
    IF chunkArray = <<>> THEN 0
    ELSE (IF CanSplit(Head(chunkArray)) THEN 1 ELSE 0)
         + getSplitChunkCounts(Tail(chunkArray))

\* Mutant: the split threshold is sent as the target size.
SplitVectorArgs_Threshold(chunk, max) ==
    [splitVector |-> chunk.datasize, keyPattern |-> chunk.keyPattern,
     min |-> chunk.min, max |-> chunk.max,
     maxChunkSizeBytes |-> (max * SPLIT_THRESHOLD_RATIO_NUM) \div SPLIT_THRESHOLD_RATIO_DEN]

\* The arguments getSplitVector sends.
SplitVectorArgs(chunk, max) ==
    [splitVector |-> chunk.datasize, keyPattern |-> chunk.keyPattern,
     min |-> chunk.min, max |-> chunk.max, maxChunkSizeBytes |-> max]

\* Mutant: the chunk is marked splittable whatever the response holds.
getSplitVector_Always(chunk, res) ==
    [canSplit |-> TRUE, splitVector |-> res.splitKeys] @@ chunk

\* Mutant: only the first split key of the response is kept.
getSplitVector_FirstKey(chunk, res) ==
    IF Len(res.splitKeys) > 0
    THEN [canSplit |-> TRUE, splitVector |-> <<res.splitKeys[1]>>] @@ chunk
    ELSE chunk

\* The chunk after getSplitVector has read the response.
getSplitVector(chunk, res) ==
    IF Len(res.splitKeys) > 0
    THEN [canSplit |-> TRUE, splitVector |-> res.splitKeys] @@ chunk
    ELSE chunk

\* Mutant: the version is read once and kept for the later chunks.
getShardVersion_Cached(res) ==
    IF shardVersion # <<>> THEN shardVersion ELSE <<res.version, res.versionEpoch>>

\* Mutant: the token is the lastmod of the chunk's own document in config.chunks.
getShardVersion_Lastmod(res) ==
    LET c == CHUNKS_TO_SPLIT[i + 1]
    IN <<(CHOOSE d \in chunks : d.min = c.min /\ d.max = c.max).lastmod,
         res.versionEpoch>>

\* What getShardVersion returns from the response of the getShardVersion command.
getShardVersion(res) == <<res.version, res.versionEpoch>>

\* Mutant: only the first split key is sent.
SplitChunkArgs_FirstKey(chunk, splitVector, version, configDB) ==
    [splitChunk |-> chunk.datasize, from |-> chunk.shard, min |-> chunk.min,
     max |-> chunk.max, keyPattern |-> chunk.keyPattern,
     splitKeys |-> SubSeq(splitVector, 1, 1),
     configdb |-> configDB, shardVersion |-> version]

\* The arguments splitChunk sends.
SplitChunkArgs(chunk, splitVector, version, configDB) ==
    [splitChunk |-> chunk.datasize, from |-> chunk.shard, min |-> chunk.min,
     max |-> chunk.max, keyPattern |-> chunk.keyPattern, splitKeys |-> splitVector,
     configdb |-> configDB, shardVersion |-> version]

\* The assertions of getPrivileges pass.
getPrivilegesOk(res) ==
    /\ Has(res, "ok")
    /\ Has(res, "authInfo")
    /\ Has(res.authInfo, "authenticatedUserPrivileges")
    /\ res.ok = 1

\* What getPrivileges returns from the response of connectionStatus.
getPrivileges(res) == res.authInfo.authenticatedUserPrivileges

\* a.localeCompare("internal") == 0 for some action of the list
checkActionInternal(actions) ==
    \E k \in 1..Len(actions) : actions[k] = "internal"

checkPrivInternalAction(privileges) ==
    \E k \in 1..Len(privileges) :
        /\ Has(privileges[k], "resource")
        /\ Has(privileges[k].resource, "cluster")
        /\ privileges[k].resource.cluster = TRUE
        /\ Has(privileges[k], "actions")
        /\ checkActionInternal(privileges[k].actions)

\* Mutant: the last connection asked decides.
isAuthorizedToSplit_Last(authorized, priv) ==
    checkPrivInternalAction(priv)

\* The callback of isAuthorizedToSplit for one connection (lines 628-631):
\* isAllConnectionsAuthorized after the privileges `priv` of the connection
\* were looked at; it is lowered and never raised.
isAuthorizedToSplit(authorized, priv) ==
    IF checkPrivInternalAction(priv) = FALSE THEN FALSE ELSE authorized

\* Mutant: the assertion on the number of chunks is gone.
countOk_Any(cnt) == TRUE

\* The assertion of getDatasizeArgs on the number of chunks (line 457).
countOk(cnt) == 0 < cnt

\* Mutant: step 3 is entered whatever the number of candidates.
NoCandidates_Never(counter) == FALSE

\* The first gate: couldSplitCount == 0 (line 668).
NoCandidates(counter) == counter = 0

\* Mutant: step 4 is entered whatever the number of splittable candidates.
NoSplittable_Never(counter) == FALSE

\* The second gate: canSplitCount == 0 (line 689).
NoSplittable(counter) == counter = 0

\* Mutant: step 4 runs whatever DO_SPLIT is.
SplitsRequested_Always(doSplit) == TRUE

\* The gate of step 4: DO_SPLIT == true.
SplitsRequested(doSplit) == doSplit = TRUE

\* Mutant: the step 4 callback splits every candidate.
SplitGuard_Every(c) == TRUE

\* The step 4 callback splits the chunks it finds splittable.
SplitGuard(c) == CanSplit(c)

\* Mutant: an element is visited a second time after its first splitChunk.
SkipUnsplittable_Retry(chunkArray, from) ==
    IF from > 0 /\ Cardinality({k \in 1..Len(calls) :
                        calls[k].op = "splitChunk" /\ calls[k].idx = from}) = 0
    THEN from - 1
    ELSE IF \E n \in (from + 1)..Len(chunkArray) : SplitGuard(chunkArray[n])
    THEN Min({n \in (from + 1)..Len(chunkArray) : SplitGuard(chunkArray[n])}) - 1
    ELSE Len(chunkArray)

\* The number of elements the step 4 forEach passes over, from position `from`,
\* before it reaches an element it splits (all the rest, when there is none).
RECURSIVE SkipUnsplittable(_, _)
SkipUnsplittable(chunkArray, from) ==
    IF from >= Len(chunkArray) THEN Len(chunkArray)
    ELSE IF SplitGuard(chunkArray[from + 1]) THEN from
    ELSE SkipUnsplittable(chunkArray, from + 1)

----------------------------------------------------------------------------
(* Responses of the cluster *)

\* Sizes a shard may report: zero (an empty range), the largest integer below
\* the threshold, the threshold itself when it is an integer, and the
\* smallest integer above it.
SizeValues(max) ==
    LET f == (max * SPLIT_THRESHOLD_RATIO_NUM) \div SPLIT_THRESHOLD_RATIO_DEN
        below == IF AtOrAboveThreshold(f, max) THEN f - 1 ELSE f
    IN {v \in {0, below, f, f + 1} : v >= 0}

\* A datasize response: with a size, or without one.
DatasizeResponses(max) ==
    {[ok |-> 0]} \cup {[ok |-> 1, size |-> v] : v \in SizeValues(max)}

\* The ascending sequence of the keys of S.
RECURSIVE SortedSeq(_)
SortedSeq(S) ==
    IF S = {} THEN <<>> ELSE <<Min(S)>> \o SortedSeq(S \ {Min(S)})

\* A splitVector response: split keys strictly inside the range (none when
\* the range cannot be divided), or a response without splitKeys.
SplitVectorResponses(chunk) ==
    {[ok |-> 0]} \cup
    {[ok |-> 1, splitKeys |-> SortedSeq(K)] :
        K \in SUBSET {k \in 0..KeyMax : chunk.min < k /\ k < chunk.max}}

\* Privileges a connection may hold.
PrivilegeLists ==
    { <<>>,
      <<[resource |-> [cluster |-> TRUE], actions |-> <<"internal">>]>>,
      <<[resource |-> [db |-> "admin"], actions |-> <<"internal">>],
        [resource |-> [cluster |-> TRUE], actions |-> <<"find">>]>> }

\* What a connection may answer to connectionStatus with showPrivileges: the
\* privileges of the authenticated user, or a failure.
ConnectionStatusResponses ==
    {[ok |-> 0]} \cup
    {[ok |-> 1, authInfo |-> [authenticatedUserPrivileges |-> L]] : L \in PrivilegeLists}

\* The version presented with a split is the collection's current version
\* and epoch.
FenceMatches(args, chs, ep) == args.shardVersion = <<CollVersion(chs), ep>>

\* The addressed shard owns the range of the split, and the split keys divide it.
NodeOwnsRange(args, chs) ==
    /\ \E c \in chs : c.min = args.min /\ c.max = args.max /\ c.shard = args.from
    /\ Len(args.splitKeys) > 0

\* The shard's current view accepts a split.
NodeAccepts(args, chs, ep) == FenceMatches(args, chs, ep) /\ NodeOwnsRange(args, chs)

\* The catalog after the shard has committed a split.
ApplySplit(args, chs) ==
    LET pts == {args.min, args.max} \cup {args.splitKeys[k] : k \in 1..Len(args.splitKeys)}
        v == CollVersion(chs) + 1
    IN {c \in chs : ~(c.min = args.min /\ c.max = args.max)} \cup
       { [min |-> b, max |-> Min({x \in pts : x > b}), shard |-> args.from,
          lastmod |-> v] : b \in pts \ {args.max} }

----------------------------------------------------------------------------
(* The run *)

\* The three modes of chunk size calculation (lines 292-298), as values of
\* <<OPTIMIZE_CHUNK_SIZE_CALCULATION, DOUBLECHECK_CHUNK_SIZE>>.
EXACT == <<FALSE, FALSE>>
ESTIMATE_THEN_VERIFY == <<TRUE, TRUE>>
ESTIMATE_ONLY == <<TRUE, FALSE>>
EstimationModes == {EXACT, ESTIMATE_THEN_VERIFY, ESTIMATE_ONLY}

\* One remote call of the run: the command, the connection it went to, the
\* position of the forEach that issued it (0 outside a loop), what was sent,
\* what came back, whether the call changed the catalog's chunk set, and, for a
\* splitChunk, whether the addressed shard owned the range when it arrived.
Call(op, to, idx, req, resp) ==
    [op |-> op, to |-> to, idx |-> idx, req |-> req, resp |-> resp,
     changed |-> FALSE, owned |-> FALSE]

Init ==
    /\ DO_SPLIT \in BOOLEAN
    /\ SAMPLE \in {FullSample, <<1, 1>>}
    /\ \E mode \in EstimationModes :
        /\ OPTIMIZE_CHUNK_SIZE_CALCULATION = mode[1]
        /\ DOUBLECHECK_CHUNK_SIZE = mode[2]
    /\ nsPresent \in BOOLEAN
    /\ chunks \in (IF nsPresent THEN InitChunkSets ELSE {{}})
    /\ epoch = 1
    /\ concOps = 0
    /\ conc = {}
    /\ pc = "getCsrsUri"
    /\ step = 1
    /\ MAX_CHUNK_SIZE = 0
    /\ count = 0
    /\ CHUNKS = <<>>
    /\ CHUNKS_TO_SPLIT = <<>>
    /\ i = 0
    /\ chunkSize = 0
    /\ shardVersion = <<>>
    /\ con = 0
    /\ isAllConnectionsAuthorized = TRUE
    /\ couldSplitCount = 0
    /\ canSplitCount = 0
    /\ wasChunks = 0
    /\ nowChunks = 0
    /\ calls = <<>>

\* Line 427: CONFIGSVR = getCsrsUri(), which runs serverStatus on the router
\* and asserts on what it finds.
GetCsrsUri ==
    /\ pc = "getCsrsUri"
    /\ \E res \in ServerStatusResponses :
        /\ calls' = Append(calls, Call("serverStatus", "mongos", 0, "serverStatus", res))
        /\ pc' = IF getCsrsUriOk(res) THEN "getChunkSize" ELSE "aborted"
    /\ UNCHANGED <<config, cluster, authorization, step, MAX_CHUNK_SIZE, count, CHUNKS, CHUNKS_TO_SPLIT,
                   i, chunkSize, shardVersion, couldSplitCount, canSplitCount,
                   wasChunks, nowChunks>>

\* Line 428, getChunkSize, first read (line 407): the number of chunksize
\* documents in config.settings; the default is returned when there is none.
CountChunksize ==
    /\ pc = "getChunkSize"
    /\ \E n \in ChunksizeCounts :
        /\ calls' = Append(calls, Call("settings.count", "config", 0, "chunksize", n))
        /\ IF n # 0
           THEN /\ MAX_CHUNK_SIZE' = MAX_CHUNK_SIZE
                /\ pc' = "findChunksize"
           ELSE /\ MAX_CHUNK_SIZE' = getChunkSizeDefault
                /\ pc' = "listShards"
    /\ UNCHANGED <<config, cluster, authorization, step, count, CHUNKS, CHUNKS_TO_SPLIT, i, chunkSize,
                   shardVersion, couldSplitCount, canSplitCount, wasChunks, nowChunks>>

\* getChunkSize, second read (lines 408-412): the chunksize document and the
\* assertions on it.
FindChunksize ==
    /\ pc = "findChunksize"
    /\ \E setting \in ChunksizeSettings :
        /\ calls' = Append(calls, Call("settings.findOne", "config", 0, "chunksize", setting))
        /\ IF getChunkSizeOk(setting)
           THEN /\ MAX_CHUNK_SIZE' = getChunkSize(setting)
                /\ pc' = "listShards"
           ELSE /\ MAX_CHUNK_SIZE' = MAX_CHUNK_SIZE
                /\ pc' = "aborted"
    /\ UNCHANGED <<config, cluster, authorization, step, count, CHUNKS, CHUNKS_TO_SPLIT, i, chunkSize,
                   shardVersion, couldSplitCount, canSplitCount, wasChunks, nowChunks>>

\* Line 433: the shards of the cluster, read from config.shards.
ListShards ==
    /\ pc = "listShards"
    /\ calls' = Append(calls, Call("shards.find", "config", 0, "shards", ShardSeq))
    /\ i' = 0
    /\ pc' = "connect"
    /\ UNCHANGED <<config, cluster, authorization, step, MAX_CHUNK_SIZE, count, CHUNKS, CHUNKS_TO_SPLIT,
                   chunkSize, shardVersion, couldSplitCount, canSplitCount,
                   wasChunks, nowChunks>>

\* Line 441: the connection is put in CON_MAP and the forEach of line 433
\* goes on to the next shard, or ends.
ConnectionPut ==
    /\ i' = IF i + 1 < Len(ShardSeq) THEN i + 1 ELSE 0
    /\ pc' = IF i + 1 < Len(ShardSeq) THEN "connect" ELSE "findCollection"

\* Line 434: new Mongo(d.host); a connection that cannot be opened throws.
Connect ==
    /\ pc = "connect"
    /\ \E opened \in BOOLEAN :
        /\ calls' = Append(calls, Call("connect", ShardSeq[i + 1], i + 1, "host", opened))
        /\ pc' = IF opened THEN "checkAuthEnabled" ELSE "aborted"
    /\ UNCHANGED <<config, cluster, authorization, step, MAX_CHUNK_SIZE, count, CHUNKS, CHUNKS_TO_SPLIT,
                   i, chunkSize, shardVersion, couldSplitCount, canSplitCount,
                   wasChunks, nowChunks>>

\* What the router answers to getParameter in this run: clusterAuthMode is set
\* when the router starts, so its answers within one run agree.
GetParameterAnswers ==
    LET seen == {calls[k].resp : k \in {n \in 1..Len(calls) : calls[n].op = "getParameter"}}
    IN IF seen = {} THEN GetParameterResponses ELSE seen \cup {[ok |-> 0]}

\* Line 436: checkAuthEnabled (lines 340-356) for the shard the forEach is at;
\* without authentication the connection is put in CON_MAP as it is.
CheckAuthEnabled ==
    /\ pc = "checkAuthEnabled"
    /\ \E res \in GetParameterAnswers :
        /\ calls' = Append(calls, Call("getParameter", "mongos", i + 1, "clusterAuthMode", res))
        /\ IF ~checkAuthEnabledOk(res)
           THEN pc' = "aborted" /\ i' = i
           ELSE IF NeedsAuth(checkAuthEnabled(res))
           THEN pc' = "auth" /\ i' = i
           ELSE ConnectionPut
    /\ UNCHANGED <<config, cluster, authorization, step, MAX_CHUNK_SIZE, count, CHUNKS, CHUNKS_TO_SPLIT,
                   chunkSize, shardVersion, couldSplitCount, canSplitCount,
                   wasChunks, nowChunks>>

\* Lines 438-439: auth(AUTH_CRED) on the shard connection, asserted to be 1.
Auth ==
    /\ pc = "auth"
    /\ \E res \in AuthResults :
        /\ calls' = Append(calls, Call("auth", ShardSeq[i + 1], i + 1, "admin", res))
        /\ IF res # 1
           THEN pc' = "aborted" /\ i' = i
           ELSE ConnectionPut
    /\ UNCHANGED <<config, cluster, authorization, step, MAX_CHUNK_SIZE, count, CHUNKS, CHUNKS_TO_SPLIT,
                   chunkSize, shardVersion, couldSplitCount, canSplitCount,
                   wasChunks, nowChunks>>

\* getDatasizeArgs, first read: the collection's document; "Namespace not found"
\* when there is none.
FindCollection ==
    /\ pc = "findCollection"
    /\ calls' = Append(calls, Call("collections.findOne", "config", 0, NS, nsPresent))
    /\ pc' = IF nsPresent THEN "countChunks" ELSE "aborted"
    /\ UNCHANGED <<config, cluster, authorization, step, MAX_CHUNK_SIZE, count, CHUNKS, CHUNKS_TO_SPLIT,
                   i, chunkSize, shardVersion, couldSplitCount, canSplitCount,
                   wasChunks, nowChunks>>

\* getDatasizeArgs, second read: the number of chunks, asserted positive.
CountChunks ==
    /\ pc = "countChunks"
    /\ count' = Cardinality(chunks)
    /\ calls' = Append(calls, Call("chunks.count", "config", 0, NS, Cardinality(chunks)))
    /\ pc' = IF countOk(Cardinality(chunks)) THEN "sampleChunks" ELSE "aborted"
    /\ UNCHANGED <<config, cluster, authorization, step, MAX_CHUNK_SIZE, CHUNKS, CHUNKS_TO_SPLIT,
                   i, chunkSize, shardVersion, couldSplitCount, canSplitCount,
                   wasChunks, nowChunks>>

\* Mutant: the discovery of step 5 is followed by step 2 again.
AfterDiscovery_Restart(found) ==
    /\ CHUNKS' = found
    /\ IF Len(found) = 0
       THEN pc' = "aborted" /\ UNCHANGED <<wasChunks, nowChunks>>
       ELSE pc' = "checkChunkSize" /\ wasChunks' = Len(found) /\ nowChunks' = nowChunks

\* The state after getChunkCounts(CHUNKS) has counted a discovery: step 1 goes
\* on to step 2, step 5 ends the run; an empty array fails the assertion.
AfterDiscovery(found) ==
    /\ CHUNKS' = found
    /\ IF Len(found) = 0
       THEN pc' = "aborted" /\ UNCHANGED <<wasChunks, nowChunks>>
       ELSE IF step = 1
       THEN pc' = "checkChunkSize" /\ wasChunks' = Len(found) /\ nowChunks' = nowChunks
       ELSE pc' = "done" /\ nowChunks' = Len(found) /\ wasChunks' = wasChunks

\* The number of documents $sample returns at most: the server takes the
\* integer part of a fractional size.
SampleSize(size) == size[1] \div size[2]

\* What $match and $sample may return: min(size, number of chunks) documents
\* of the namespace, in any order; selected after a $match they are distinct.
Samples(size) ==
    LET n == Min({SampleSize(size), Cardinality(chunks)})
    IN {sample \in [1..n -> chunks] :
           \A a, b \in 1..n : a # b => sample[a] # sample[b]}

\* getDatasizeArgs, third read: the aggregation with $match and $sample, one
\* document pushed to CHUNKS for each document returned.  Then getChunkCounts.
SampleChunks ==
    /\ pc = "sampleChunks"
    /\ \E sample \in Samples(SampleValue(count, SAMPLE)) :
        /\ calls' = Append(calls, Call("chunks.aggregate", "config", 0,
                                       SampleValue(count, SAMPLE), sample))
        /\ AfterDiscovery([k \in 1..Len(sample) |->
                             newDoc(sample[k], OPTIMIZE_CHUNK_SIZE_CALCULATION)])
    /\ i' = 0
    /\ UNCHANGED <<config, cluster, authorization, step, MAX_CHUNK_SIZE, count, CHUNKS_TO_SPLIT,
                   chunkSize, shardVersion, couldSplitCount, canSplitCount>>

\* The step 2 callback after checkChunkSize returned `size` for the chunk
\* object `c` (lines 652-660), and, after the last chunk, the count of the
\* candidates and the first gate (lines 667-671).
AfterCheckChunkSize(c, size) ==
    LET kept == [chunkSize |-> size, canSplit |-> FALSE] @@ c
        toSplit == IF IsCandidate(size) THEN Append(CHUNKS_TO_SPLIT, kept)
                   ELSE CHUNKS_TO_SPLIT
    IN /\ CHUNKS' = [CHUNKS EXCEPT ![i + 1] = IF IsCandidate(size) THEN kept ELSE c]
       /\ CHUNKS_TO_SPLIT' = toSplit
       /\ IF i + 1 < Len(CHUNKS)
          THEN /\ i' = i + 1
               /\ pc' = "checkChunkSize"
               /\ couldSplitCount' = couldSplitCount
          ELSE /\ i' = 0
               /\ couldSplitCount' = getCouldSplitChunkCounts(toSplit)
               /\ pc' = IF NoCandidates(getCouldSplitChunkCounts(toSplit)) THEN "done"
                        ELSE "getSplitVector"

\* checkChunkSize, first datasize command (lines 478-482), and the rest of the
\* function when it does not ask a second time.
CheckChunkSize ==
    /\ pc = "checkChunkSize"
    /\ LET c == CHUNKS[i + 1]
       IN \E res \in DatasizeResponses(MAX_CHUNK_SIZE) :
            /\ calls' = Append(calls, Call("datasize", c.shard, i + 1, c, res))
            /\ IF ~Has(res, "size")
               THEN /\ pc' = "aborted"
                    /\ UNCHANGED <<CHUNKS, CHUNKS_TO_SPLIT, i, chunkSize, couldSplitCount>>
               ELSE IF NeedsDoubleCheck(res.size, MAX_CHUNK_SIZE,
                                        OPTIMIZE_CHUNK_SIZE_CALCULATION,
                                        DOUBLECHECK_CHUNK_SIZE)
               THEN /\ pc' = "doubleCheck"
                    /\ chunkSize' = res.size
                    /\ CHUNKS' = [CHUNKS EXCEPT ![i + 1].estimate = FALSE]
                    /\ UNCHANGED <<CHUNKS_TO_SPLIT, i, couldSplitCount>>
               ELSE /\ chunkSize' = chunkSize
                    /\ AfterCheckChunkSize(c, checkChunkSize(res.size, res.size,
                                                MAX_CHUNK_SIZE,
                                                OPTIMIZE_CHUNK_SIZE_CALCULATION,
                                                DOUBLECHECK_CHUNK_SIZE))
    /\ UNCHANGED <<config, cluster, authorization, step, MAX_CHUNK_SIZE, count, shardVersion,
                   canSplitCount, wasChunks, nowChunks>>

\* checkChunkSize, second datasize command with estimate: false (lines 484-493).
DoubleCheck ==
    /\ pc = "doubleCheck"
    /\ LET c == CHUNKS[i + 1]
       IN \E res \in DatasizeResponses(MAX_CHUNK_SIZE) :
            /\ calls' = Append(calls, Call("datasize", c.shard, i + 1, c, res))
            /\ IF ~Has(res, "size")
               THEN /\ pc' = "aborted"
                    /\ UNCHANGED <<CHUNKS, CHUNKS_TO_SPLIT, i, couldSplitCount>>
               ELSE AfterCheckChunkSize(c, checkChunkSize(chunkSize, res.size,
                                               MAX_CHUNK_SIZE,
                                               OPTIMIZE_CHUNK_SIZE_CALCULATION,
                                               DOUBLECHECK_CHUNK_SIZE))
    /\ UNCHANGED <<config, cluster, authorization, step, MAX_CHUNK_SIZE, count, chunkSize, shardVersion,
                   canSplitCount, wasChunks, nowChunks>>

\* The array `arr` after the object `c`, which it may hold, has become `new`:
\* step 2 pushes to CHUNKS_TO_SPLIT the very object that CHUNKS holds.
Shared(arr, c, new) ==
    [n \in 1..Len(arr) |-> IF arr[n] = c THEN new ELSE arr[n]]

\* getSplitVector for one candidate (lines 500-516, called at 678-682) and,
\* after the last candidate, the count of the splittable ones and the gates
\* of lines 688-696.
GetSplitVector ==
    /\ pc = "getSplitVector"
    /\ LET c == CHUNKS_TO_SPLIT[i + 1]
           args == SplitVectorArgs(c, MAX_CHUNK_SIZE)
       IN \E res \in SplitVectorResponses(c) :
            /\ calls' = Append(calls, Call("splitVector", c.shard, i + 1, args, res))
            /\ IF ~Has(res, "splitKeys")
               THEN /\ pc' = "aborted"
                    /\ UNCHANGED <<CHUNKS, CHUNKS_TO_SPLIT, i, canSplitCount>>
               ELSE LET toSplit == [CHUNKS_TO_SPLIT EXCEPT ![i + 1] = getSplitVector(c, res)]
                    IN /\ CHUNKS_TO_SPLIT' = toSplit
                       /\ CHUNKS' = Shared(CHUNKS, c, getSplitVector(c, res))
                       /\ IF i + 1 < Len(CHUNKS_TO_SPLIT)
                          THEN /\ i' = i + 1
                               /\ pc' = "getSplitVector"
                               /\ canSplitCount' = canSplitCount
                          ELSE /\ i' = 0
                               /\ canSplitCount' = getSplitChunkCounts(toSplit)
                               /\ pc' = IF NoSplittable(getSplitChunkCounts(toSplit)) THEN "done"
                                        ELSE IF SplitsRequested(DO_SPLIT) THEN "authorize"
                                        ELSE "done"
    /\ UNCHANGED <<config, cluster, authorization, step, MAX_CHUNK_SIZE, count, chunkSize,
                   shardVersion, couldSplitCount, wasChunks, nowChunks>>

\* isAuthorizedToSplit (lines 624-635, called at 700), one connection of
\* CON_MAP at a time: connectionStatus on the connection, a failed assertion
\* of getPrivileges ending the run.  After the last connection: without the
\* internal action everywhere step 4 is skipped; authorized, the forEach of
\* step 4 runs up to the first chunk it splits.
IsAuthorizedToSplit ==
    /\ pc = "authorize"
    /\ \E res \in ConnectionStatusResponses :
        /\ calls' = Append(calls, Call("connectionStatus", ShardSeq[con + 1], con + 1,
                                       "showPrivileges", res))
        /\ IF ~getPrivilegesOk(res)
           THEN /\ pc' = "aborted"
                /\ UNCHANGED <<i, con, isAllConnectionsAuthorized>>
           ELSE LET authorized == isAuthorizedToSplit(isAllConnectionsAuthorized,
                                                      getPrivileges(res))
                IN /\ isAllConnectionsAuthorized' = authorized
                   /\ IF con + 1 < Len(ShardSeq)
                      THEN /\ con' = con + 1
                           /\ i' = i
                           /\ pc' = "authorize"
                      ELSE /\ con' = con
                           /\ IF authorized
                              THEN /\ i' = SkipUnsplittable(CHUNKS_TO_SPLIT, 0)
                                   /\ pc' = "getShardVersion"
                              ELSE /\ i' = i
                                   /\ pc' = "done"
    /\ UNCHANGED <<config, cluster, step, MAX_CHUNK_SIZE, count, CHUNKS, CHUNKS_TO_SPLIT,
                   chunkSize, shardVersion, couldSplitCount, canSplitCount, wasChunks,
                   nowChunks>>

\* What mongos may answer to getShardVersion: the collection's current version
\* and epoch, or a failure.
ShardVersionResponses ==
    {[ok |-> 0], [ok |-> 1, version |-> CollVersion(chunks), versionEpoch |-> epoch]}

\* The assertions of getShardVersion pass.
getShardVersionOk(res) ==
    Has(res, "ok") /\ Has(res, "version") /\ Has(res, "versionEpoch") /\ res.ok = 1

\* getShardVersion(c.datasize) for the chunk the step 4 callback is at (line 707).
GetShardVersion ==
    /\ pc = "getShardVersion"
    /\ \E res \in ShardVersionResponses :
        /\ calls' = Append(calls, Call("getShardVersion", "mongos", i + 1,
                                       CHUNKS_TO_SPLIT[i + 1].datasize, res))
        /\ IF getShardVersionOk(res)
           THEN /\ shardVersion' = getShardVersion(res)
                /\ pc' = "splitChunk"
           ELSE /\ shardVersion' = shardVersion
                /\ pc' = "aborted"
    /\ UNCHANGED <<config, cluster, authorization, step, MAX_CHUNK_SIZE, count, CHUNKS, CHUNKS_TO_SPLIT,
                   i, chunkSize, couldSplitCount, canSplitCount, wasChunks, nowChunks>>

\* What the shard may answer to a splitChunk command and the catalog it leaves:
\* a split its current view accepts is committed (ok: 1) or fails for a reason
\* of the shard's own (ok: 0); any other is rejected (ok: 0); a response may
\* also lack the ok field.  Only a committed split changes the catalog.
SplitChunkOutcomes(args) ==
    {[res |-> [errmsg |-> "no ok field"], chunks |-> chunks]} \cup
    (IF NodeAccepts(args, chunks, epoch)
     THEN {[res |-> [ok |-> 1], chunks |-> ApplySplit(args, chunks)],
           [res |-> [ok |-> 0, errmsg |-> "could not acquire collection lock"],
            chunks |-> chunks]}
     ELSE IF ~FenceMatches(args, chunks, epoch)
     THEN {[res |-> [ok |-> 0, errmsg |-> "stale shard version"], chunks |-> chunks]}
     ELSE {[res |-> [ok |-> 0, errmsg |-> "chunk boundaries are outdated"],
            chunks |-> chunks]})

\* Mutant: splitChunk asserts that the split succeeded.
splitChunkOk_Succeeded(res) == Has(res, "ok") /\ res.ok = 1

\* The assertion of splitChunk on its response passes (line 546).
splitChunkOk(res) == Has(res, "ok")

\* c.splitVector as the step 4 callback passes it (no keys when the chunk has
\* no such field).
SplitVectorOf(c) == IF Has(c, "splitVector") THEN c.splitVector ELSE <<>>

\* splitChunk for the chunk the step 4 callback is at (lines 533-554, called at
\* 708): a response with ok != 1 is printed and the forEach goes on; after the
\* last chunk step 5 empties CHUNKS and discovers again (lines 720-722).
SplitChunk ==
    /\ pc = "splitChunk"
    /\ LET c == CHUNKS_TO_SPLIT[i + 1]
           args == SplitChunkArgs(c, SplitVectorOf(c), shardVersion, CONFIGSVR)
       IN \E out \in SplitChunkOutcomes(args) :
            /\ calls' = Append(calls, [Call("splitChunk", c.shard, i + 1, args, out.res)
                                        EXCEPT !.changed = (out.chunks # chunks),
                                               !.owned = NodeOwnsRange(args, chunks)])
            /\ chunks' = out.chunks
            /\ IF ~splitChunkOk(out.res)
               THEN /\ pc' = "aborted"
                    /\ UNCHANGED <<i, step, CHUNKS>>
               ELSE IF SkipUnsplittable(CHUNKS_TO_SPLIT, i + 1) < Len(CHUNKS_TO_SPLIT)
               THEN /\ i' = SkipUnsplittable(CHUNKS_TO_SPLIT, i + 1)
                    /\ pc' = "getShardVersion"
                    /\ UNCHANGED <<step, CHUNKS>>
               ELSE /\ i' = Len(CHUNKS_TO_SPLIT)
                    /\ pc' = "findCollection"
                    /\ step' = 5
                    /\ CHUNKS' = <<>>
    /\ UNCHANGED <<config, nsPresent, epoch, concOps, conc, authorization, MAX_CHUNK_SIZE,
                   count, CHUNKS_TO_SPLIT, chunkSize, shardVersion, couldSplitCount,
                   canSplitCount, wasChunks, nowChunks>>

----------------------------------------------------------------------------
(* Other actors on the catalog *)

script == <<pc, step, MAX_CHUNK_SIZE, count, CHUNKS, CHUNKS_TO_SPLIT, i, chunkSize,
            shardVersion, authorization, couldSplitCount, canSplitCount, wasChunks,
            nowChunks, calls>>

\* The steps and the remote calls that come before step 1: getCsrsUri,
\* getChunkSize and the construction of CON_MAP.
ConstructionSteps ==
    {"getCsrsUri", "getChunkSize", "findChunksize", "listShards", "connect",
     "checkAuthEnabled", "auth"}
ConstructionOps ==
    {"serverStatus", "settings.count", "settings.findOne", "shards.find", "connect",
     "getParameter", "auth"}

\* The steps between the discovery of step 1 and the last splitChunk command.
\* Other actors act there: a change made before the discovery is a run that
\* starts on another catalog, a change made after the last command changes
\* what step 5 counts and no command.
SplitWindow ==
    {"checkChunkSize", "doubleCheck", "getSplitVector", "authorize", "getShardVersion",
     "splitChunk"}
Running == pc \in SplitWindow

\* The run has a size for the range [lo, hi): a datasize response with a size
\* came back for it and checkChunkSize is not waiting for a second one.
Estimated(lo, hi) ==
    /\ \E k \in 1..Len(calls) :
          /\ calls[k].op = "datasize" /\ calls[k].req.min = lo /\ calls[k].req.max = hi
          /\ Has(calls[k].resp, "size")
    /\ ~(pc = "doubleCheck" /\ CHUNKS[i + 1].min = lo /\ CHUNKS[i + 1].max = hi)

\* The run has sent a splitChunk command for the range [lo, hi).
Commanded(lo, hi) ==
    \E k \in 1..Len(calls) :
        calls[k].op = "splitChunk" /\ calls[k].req.min = lo /\ calls[k].req.max = hi

\* History of a change another actor makes to chunk c: its number, its kind,
\* the shard that owns the range after a move (none after a split), whether
\* the run had estimated c, whether it had sent c's splitChunk command, and
\* the position of the step 4 forEach whose version read was done and whose
\* command was still to be sent (0 when there was none).
Change(c, kind, to) ==
    [n |-> concOps + 1, kind |-> kind, to |-> to, min |-> c.min, max |-> c.max,
     estimated |-> Estimated(c.min, c.max),
     commanded |-> Commanded(c.min, c.max),
     fenced |-> IF pc = "splitChunk" THEN i + 1 ELSE 0]

\* A balancer moves a chunk to another shard; the chunk gets a new version.
MoveChunk ==
    /\ Running
    /\ concOps < MaxConcurrentOps
    /\ \E c \in chunks : \E s \in Shards \ {c.shard} :
        /\ chunks' = (chunks \ {c}) \cup
                     {[c EXCEPT !.shard = s, !.lastmod = CollVersion(chunks) + 1]}
        /\ conc' = conc \cup {Change(c, "move", s)}
    /\ concOps' = concOps + 1
    /\ UNCHANGED <<config, nsPresent, epoch, script>>

\* Another actor splits a chunk in two; both halves get a new version.
ConcurrentSplit ==
    /\ Running
    /\ concOps < MaxConcurrentOps
    /\ \E c \in chunks, k \in 0..KeyMax :
        /\ c.min < k /\ k < c.max
        /\ chunks' = (chunks \ {c}) \cup
                     {[c EXCEPT !.max = k, !.lastmod = CollVersion(chunks) + 1],
                      [c EXCEPT !.min = k, !.lastmod = CollVersion(chunks) + 1]}
        /\ conc' = conc \cup {Change(c, "split", "none")}
    /\ concOps' = concOps + 1
    /\ UNCHANGED <<config, nsPresent, epoch, script>>

----------------------------------------------------------------------------
(* Specifications *)

\* The run alone: no writes to the namespace, the balancer stopped (the
\* prerequisites of lines 308-309).
Next ==
    \/ GetCsrsUri
    \/ CountChunksize
    \/ FindChunksize
    \/ ListShards
    \/ Connect
    \/ CheckAuthEnabled
    \/ Auth
    \/ FindCollection
    \/ CountChunks
    \/ SampleChunks
    \/ CheckChunkSize
    \/ DoubleCheck
    \/ GetSplitVector
    \/ IsAuthorizedToSplit
    \/ GetShardVersion
    \/ SplitChunk

Spec == Init /\ [][Next]_vars

\* The run of the shell: the script is executed statement by statement and
\* every remote command returns, so a step that can be taken is taken.
FairSpec == Spec /\ WF_vars(Next)

\* The run with other actors changing the catalog between its remote calls.
ConcNext ==
    \/ Next
    \/ MoveChunk
    \/ ConcurrentSplit

\* Every run of Init, on a catalog the other actors can grow.
ConcInit ==
    /\ Init
    /\ Cardinality(chunks) <= MaxConcInitChunks

ConcSpec == ConcInit /\ [][ConcNext]_vars

----------------------------------------------------------------------------
(* The variant src/unnamed/part_000: the run up to its step 3 *)

\* getCsrsUri of the variant passes (lines 37-38): without the sharding
\* section reading its field raises a TypeError, without the connection
\* string the assertion fails.
part000_getCsrsUriOk(res) ==
    Has(res, "sharding") /\ Has(res.sharding, "configsvrConnectionString")

\* getChunkSize of the variant passes (lines 27-29): reading the value of a
\* document that is not there raises a TypeError, assert(res.value) fails for
\* an absent value and for 0, assert.lte(0, res.value) for a negative one.
part000_getChunkSizeOk(setting) ==
    setting.present /\ Has(setting, "value") /\ setting.value # 0 /\ 0 <= setting.value

\* assert(res.size) of checkChunkSize2 passes (lines 99 and 106): the size is
\* there and is not 0.
part000_sizeOk(res) == Has(res, "size") /\ res.size # 0

\* checkChunkSize2 asks for a second, exact size (lines 102-103).
part000_NeedsDoubleCheck(first, max, optimize, doublecheck) ==
    AboveThreshold(first, max) /\ optimize = TRUE /\ doublecheck = TRUE

\* The value checkChunkSize2 returns (lines 100-114), from the size of its
\* first response and (when it asked twice) the size of its second response.
checkChunkSize2(first, second, max, optimize, doublecheck) ==
    IF AboveThreshold(first, max)
    THEN IF optimize = TRUE /\ doublecheck = TRUE THEN second ELSE first
    ELSE -1

\* getSplitVector of the variant, from the response of the splitVector command:
\* the assertion is on res.splitKeys (an empty array passes it), the test and
\* the assignment read res.splitVector, and reading the length of a field the
\* response does not carry raises a TypeError.
part000_getSplitVector(chunk, res) ==
    IF ~Has(res, "splitKeys") THEN [error |-> "assert"]
    ELSE IF ~Has(res, "splitVector") THEN [error |-> "TypeError"]
    ELSE IF Len(res.splitVector) > 0
    THEN [chunk |-> [canSplit |-> TRUE, splitVector |-> res.splitVector] @@ chunk]
    ELSE [chunk |-> chunk]

\* The variant when it starts: the arguments of line 22, the configurable
\* globals of lines 46-48 and the empty arrays of lines 64-65, as in Init.
Part000Init == Init

\* Line 42: CONFIGSVR = getCsrsUri().
Part000GetCsrsUri ==
    /\ pc = "getCsrsUri"
    /\ \E res \in ServerStatusResponses :
        /\ calls' = Append(calls, Call("serverStatus", "mongos", 0, "serverStatus", res))
        /\ pc' = IF part000_getCsrsUriOk(res) THEN "getChunkSize" ELSE "aborted"
    /\ UNCHANGED <<config, cluster, authorization, step, MAX_CHUNK_SIZE, count, CHUNKS,
                   CHUNKS_TO_SPLIT, i, chunkSize, shardVersion, couldSplitCount,
                   canSplitCount, wasChunks, nowChunks>>

\* Line 43, getChunkSize, first read (line 26): the number of chunksize
\* documents; the default of line 32 is returned when there is none.
Part000CountChunksize ==
    /\ pc = "getChunkSize"
    /\ \E n \in ChunksizeCounts :
        /\ calls' = Append(calls, Call("settings.count", "config", 0, "chunksize", n))
        /\ IF n # 0
           THEN /\ MAX_CHUNK_SIZE' = MAX_CHUNK_SIZE
                /\ pc' = "findChunksize"
           ELSE /\ MAX_CHUNK_SIZE' = getChunkSizeDefault
                /\ pc' = "listShards"
    /\ UNCHANGED <<config, cluster, authorization, step, count, CHUNKS, CHUNKS_TO_SPLIT, i,
                   chunkSize, shardVersion, couldSplitCount, canSplitCount, wasChunks,
                   nowChunks>>

\* getChunkSize, second read (lines 27-30).
Part000FindChunksize ==
    /\ pc = "findChunksize"
    /\ \E setting \in ChunksizeSettings :
        /\ calls' = Append(calls, Call("settings.findOne", "config", 0, "chunksize", setting))
        /\ IF part000_getChunkSizeOk(setting)
           THEN /\ MAX_CHUNK_SIZE' = getChunkSize(setting)
                /\ pc' = "listShards"
           ELSE /\ MAX_CHUNK_SIZE' = MAX_CHUNK_SIZE
                /\ pc' = "aborted"
    /\ UNCHANGED <<config, cluster, authorization, step, count, CHUNKS, CHUNKS_TO_SPLIT, i,
                   chunkSize, shardVersion, couldSplitCount, canSplitCount, wasChunks,
                   nowChunks>>

\* Line 57: the shards of the cluster, read from config.shards.
Part000ListShards ==
    /\ pc = "listShards"
    /\ calls' = Append(calls, Call("shards.find", "config", 0, "shards", ShardSeq))
    /\ i' = 0
    /\ pc' = "connect"
    /\ UNCHANGED <<config, cluster, authorization, step, MAX_CHUNK_SIZE, count, CHUNKS,
                   CHUNKS_TO_SPLIT, chunkSize, shardVersion, couldSplitCount,
                   canSplitCount, wasChunks, nowChunks>>

\* Line 58: new Mongo(d.host); a connection that cannot be opened throws.
Part000Connect ==
    /\ pc = "connect"
    /\ \E opened \in BOOLEAN :
        /\ calls' = Append(calls, Call("connect", ShardSeq[i + 1], i + 1, "host", opened))
        /\ pc' = IF opened THEN "auth" ELSE "aborted"
    /\ UNCHANGED <<config, cluster, authorization, step, MAX_CHUNK_SIZE, count, CHUNKS,
                   CHUNKS_TO_SPLIT, i, chunkSize, shardVersion, couldSplitCount,
                   canSplitCount, wasChunks, nowChunks>>

\* Lines 59-61: auth(AUTH_CRED) on every shard connection, asserted to be 1;
\* the connection is put in CON_MAP and the forEach goes on or ends.
Part000Auth ==
    /\ pc = "auth"
    /\ \E res \in AuthResults :
        /\ calls' = Append(calls, Call("auth", ShardSeq[i + 1], i + 1, "admin", res))
        /\ IF res # 1
           THEN pc' = "aborted" /\ i' = i
           ELSE /\ i' = IF i + 1 < Len(ShardSeq) THEN i + 1 ELSE 0
                /\ pc' = IF i + 1 < Len(ShardSeq) THEN "connect" ELSE "findCollection"
    /\ UNCHANGED <<config, cluster, authorization, step, MAX_CHUNK_SIZE, count, CHUNKS,
                   CHUNKS_TO_SPLIT, chunkSize, shardVersion, couldSplitCount,
                   canSplitCount, wasChunks, nowChunks>>

\* getDatasizeArgs2, first read (lines 71-73): reading the _id of a document
\* that is not there raises a TypeError.
Part000FindCollection ==
    /\ pc = "findCollection"
    /\ calls' = Append(calls, Call("collections.findOne", "config", 0, NS, nsPresent))
    /\ pc' = IF nsPresent THEN "countChunks" ELSE "aborted"
    /\ UNCHANGED <<config, cluster, authorization, step, MAX_CHUNK_SIZE, count, CHUNKS,
                   CHUNKS_TO_SPLIT, i, chunkSize, shardVersion, couldSplitCount,
                   canSplitCount, wasChunks, nowChunks>>

\* getDatasizeArgs2, second read (lines 75-76): the number of chunks,
\* asserted positive.
Part000CountChunks ==
    /\ pc = "countChunks"
    /\ count' = Cardinality(chunks)
    /\ calls' = Append(calls, Call("chunks.count", "config", 0, NS, Cardinality(chunks)))
    /\ pc' = IF 0 < Cardinality(chunks) THEN "sampleChunks" ELSE "aborted"
    /\ UNCHANGED <<config, cluster, authorization, step, MAX_CHUNK_SIZE, CHUNKS,
                   CHUNKS_TO_SPLIT, i, chunkSize, shardVersion, couldSplitCount,
                   canSplitCount, wasChunks, nowChunks>>

\* getDatasizeArgs2, third read (lines 78-92), and getChunkCounts (lines
\* 191-195), which asserts that CHUNKS is not empty and returns nothing.
Part000SampleChunks ==
    /\ pc = "sampleChunks"
    /\ \E sample \in Samples(SampleValue(count, SAMPLE)) :
        /\ calls' = Append(calls, Call("chunks.aggregate", "config", 0,
                                       SampleValue(count, SAMPLE), sample))
        /\ CHUNKS' = [k \in 1..Len(sample) |->
                         newDoc(sample[k], OPTIMIZE_CHUNK_SIZE_CALCULATION)]
        /\ pc' = IF Len(sample) = 0 THEN "aborted" ELSE "checkChunkSize"
    /\ i' = 0
    /\ UNCHANGED <<config, cluster, authorization, step, MAX_CHUNK_SIZE, count,
                   CHUNKS_TO_SPLIT, chunkSize, shardVersion, couldSplitCount,
                   canSplitCount, wasChunks, nowChunks>>

\* The step 2 callback after checkChunkSize2 returned `size` for the chunk
\* object `c` (lines 234-240), and, after the last chunk, the count of the
\* candidates and the first gate (lines 243-246).
Part000AfterCheckChunkSize(c, size) ==
    LET kept == [chunkSize |-> size, canSplit |-> FALSE] @@ c
        toSplit == IF size > 0 THEN Append(CHUNKS_TO_SPLIT, kept) ELSE CHUNKS_TO_SPLIT
    IN /\ CHUNKS' = [CHUNKS EXCEPT ![i + 1] = IF size > 0 THEN kept ELSE c]
       /\ CHUNKS_TO_SPLIT' = toSplit
       /\ IF i + 1 < Len(CHUNKS)
          THEN /\ i' = i + 1
               /\ pc' = "checkChunkSize"
               /\ couldSplitCount' = couldSplitCount
          ELSE /\ i' = 0
               /\ couldSplitCount' = getCouldSplitChunkCounts(toSplit)
               /\ pc' = IF getCouldSplitChunkCounts(toSplit) = 0 THEN "done"
                        ELSE "getSplitVector"

\* checkChunkSize2, first datasize command (lines 98-102), and the rest of
\* the function when it does not ask a second time.
Part000CheckChunkSize ==
    /\ pc = "checkChunkSize"
    /\ LET c == CHUNKS[i + 1]
       IN \E res \in DatasizeResponses(MAX_CHUNK_SIZE) :
            /\ calls' = Append(calls, Call("datasize", c.shard, i + 1, c, res))
            /\ IF ~part000_sizeOk(res)
               THEN /\ pc' = "aborted"
                    /\ UNCHANGED <<CHUNKS, CHUNKS_TO_SPLIT, i, chunkSize, couldSplitCount>>
               ELSE IF part000_NeedsDoubleCheck(res.size, MAX_CHUNK_SIZE,
                                                OPTIMIZE_CHUNK_SIZE_CALCULATION,
                                                DOUBLECHECK_CHUNK_SIZE)
               THEN /\ pc' = "doubleCheck"
                    /\ chunkSize' = res.size
                    /\ CHUNKS' = [CHUNKS EXCEPT ![i + 1].estimate = FALSE]
                    /\ UNCHANGED <<CHUNKS_TO_SPLIT, i, couldSplitCount>>
               ELSE /\ chunkSize' = chunkSize
                    /\ Part000AfterCheckChunkSize(c, checkChunkSize2(res.size, res.size,
                                                        MAX_CHUNK_SIZE,
                                                        OPTIMIZE_CHUNK_SIZE_CALCULATION,
                                                        DOUBLECHECK_CHUNK_SIZE))
    /\ UNCHANGED <<config, cluster, authorization, step, MAX_CHUNK_SIZE, count, shardVersion,
                   canSplitCount, wasChunks, nowChunks>>

\* checkChunkSize2, second datasize command with estimate: false (lines 104-112).
Part000DoubleCheck ==
    /\ pc = "doubleCheck"
    /\ LET c == CHUNKS[i + 1]
       IN \E res \in DatasizeResponses(MAX_CHUNK_SIZE) :
            /\ calls' = Append(calls, Call("datasize", c.shard, i + 1, c, res))
            /\ IF ~part000_sizeOk(res)
               THEN /\ pc' = "aborted"
                    /\ UNCHANGED <<CHUNKS, CHUNKS_TO_SPLIT, i, couldSplitCount>>
               ELSE Part000AfterCheckChunkSize(c, checkChunkSize2(chunkSize, res.size,
                                                       MAX_CHUNK_SIZE,
                                                       OPTIMIZE_CHUNK_SIZE_CALCULATION,
                                                       DOUBLECHECK_CHUNK_SIZE))
    /\ UNCHANGED <<config, cluster, authorization, step, MAX_CHUNK_SIZE, count, chunkSize,
                   shardVersion, canSplitCount, wasChunks, nowChunks>>

\* The step 3 callback of the variant for one candidate (lines 250-252); an
\* error ends the run.  After the last candidate the count of the splittable
\* ones and the gates of lines 254-260 follow.
Part000GetSplitVector ==
    /\ pc = "getSplitVector"
    /\ LET c == CHUNKS_TO_SPLIT[i + 1]
           args == SplitVectorArgs(c, MAX_CHUNK_SIZE)
       IN \E res \in SplitVectorResponses(c) :
            LET out == part000_getSplitVector(c, res)
            IN /\ calls' = Append(calls, Call("splitVector", c.shard, i + 1, args, res))
               /\ IF Has(out, "error")
                  THEN /\ pc' = "aborted"
                       /\ UNCHANGED <<CHUNKS, CHUNKS_TO_SPLIT, i, canSplitCount>>
                  ELSE LET toSplit == [CHUNKS_TO_SPLIT EXCEPT ![i + 1] = out.chunk]
                       IN /\ CHUNKS_TO_SPLIT' = toSplit
                          /\ CHUNKS' = Shared(CHUNKS, c, out.chunk)
                          /\ IF i + 1 < Len(CHUNKS_TO_SPLIT)
                             THEN /\ i' = i + 1
                                  /\ pc' = "getSplitVector"
                                  /\ canSplitCount' = canSplitCount
                             ELSE /\ i' = 0
                                  /\ canSplitCount' = getSplitChunkCounts(toSplit)
                                  /\ pc' = IF getSplitChunkCounts(toSplit) = 0 THEN "done"
                                           ELSE IF DO_SPLIT = TRUE THEN "getShardVersion"
                                           ELSE "done"
    /\ UNCHANGED <<config, cluster, authorization, step, MAX_CHUNK_SIZE, count, chunkSize,
                   shardVersion, couldSplitCount, wasChunks, nowChunks>>

\* The run of the variant.  Every response a shard can give to splitVector
\* ends the run at the first candidate of step 3, so the steps 4 and 5 of the
\* variant (lines 259-274) are never entered and have no step here.
Part000Next ==
    \/ Part000GetCsrsUri
    \/ Part000CountChunksize
    \/ Part000FindChunksize
    \/ Part000ListShards
    \/ Part000Connect
    \/ Part000Auth
    \/ Part000FindCollection
    \/ Part000CountChunks
    \/ Part000SampleChunks
    \/ Part000CheckChunkSize
    \/ Part000DoubleCheck
    \/ Part000GetSplitVector

Part000Spec == Part000Init /\ [][Part000Next]_vars

----------------------------------------------------------------------------
(* Properties: vocabulary over the history of remote calls *)

CallIndexes == 1..Len(calls)

\* The calls of command `op` issued at position j of a forEach.
CallsAt(op, j) == {k \in CallIndexes : calls[k].op = op /\ calls[k].idx = j}

\* The datasize calls for the j-th sampled chunk, and the sizes of the first
\* and of the last of them.
SizeCalls(j) == CallsAt("datasize", j)
FirstSize(j) == calls[Min(SizeCalls(j))].resp.size
LastSize(j) == calls[Max(SizeCalls(j))].resp.size

\* checkChunkSize has returned for the j-th sampled chunk.
Checked(j) ==
    /\ SizeCalls(j) # {}
    /\ \A k \in SizeCalls(j) : Has(calls[k].resp, "size")
    /\ pc \in {"checkChunkSize", "doubleCheck"} => j <= i

\* checkChunkSize asked twice for the j-th sampled chunk.
AskedTwice(j) == Cardinality(SizeCalls(j)) = 2

\* The range [lo, hi) is in CHUNKS_TO_SPLIT.
InChunksToSplit(lo, hi) ==
    \E m \in 1..Len(CHUNKS_TO_SPLIT) :
        CHUNKS_TO_SPLIT[m].min = lo /\ CHUNKS_TO_SPLIT[m].max = hi

\* A splitVector request was sent for the range [lo, hi).
Planned(lo, hi) ==
    \E k \in CallIndexes :
        calls[k].op = "splitVector" /\ calls[k].req.min = lo /\ calls[k].req.max = hi

\* The range of the j-th sampled chunk, from its first datasize request.
RangeOf(j) == calls[Min(SizeCalls(j))].req

\* The sampled chunks of step 1 (step 2 reads no others).
Sampled == {j \in 1..wasChunks : SizeCalls(j) # {}}

Mode == <<OPTIMIZE_CHUNK_SIZE_CALCULATION, DOUBLECHECK_CHUNK_SIZE>>

----------------------------------------------------------------------------
(* C1 *)

\* C1: when DO_SPLIT is false no splitChunk command is ever sent, whatever
\* the chunks, the estimation mode and the responses.
C1_NoSplitUnlessRequested ==
    DO_SPLIT = FALSE => \A k \in CallIndexes : calls[k].op # "splitChunk"

\* A run with DO_SPLIT false that found two splittable candidates and ended.
C1_Witness ==
    /\ DO_SPLIT = FALSE
    /\ pc = "done"
    /\ canSplitCount >= 2

----------------------------------------------------------------------------
(* C2 *)

\* The splitVector response for the m-th candidate came back with no keys.
NoSplitPoints(m) ==
    \E k \in CallsAt("splitVector", m) :
        Has(calls[k].resp, "splitKeys") /\ Len(calls[k].resp.splitKeys) = 0

\* C2: a candidate whose splitVector response holds no split point gets no
\* version read and no splitChunk command, and it is counted among the
\* candidates (couldSplitCount).
C2_ZeroSplitPointsNeverExecuted ==
    \A m \in 1..Len(CHUNKS_TO_SPLIT) :
        NoSplitPoints(m) =>
            /\ CallsAt("getShardVersion", m) = {}
            /\ CallsAt("splitChunk", m) = {}
            /\ couldSplitCount = Len(CHUNKS_TO_SPLIT)
            /\ CHUNKS_TO_SPLIT[m].chunkSize # -1

\* A run with DO_SPLIT true that split one candidate while another candidate
\* had no split points.
C2_Witness ==
    /\ DO_SPLIT = TRUE
    /\ pc = "done"
    /\ \E m \in 1..Len(CHUNKS_TO_SPLIT) : NoSplitPoints(m)
    /\ \E k \in CallIndexes : calls[k].op = "splitChunk" /\ calls[k].changed

----------------------------------------------------------------------------
(* C3 *)

\* C3, as claimed: under ESTIMATE_THEN_VERIFY a chunk whose estimate is above
\* the threshold and whose exact size is at or below it is not a candidate and
\* gets no splitVector request; under ESTIMATE_ONLY a chunk whose estimate is
\* above the threshold is a candidate.
C3_FalsePositiveDropped ==
    \A j \in Sampled :
        Checked(j) =>
            /\ ( /\ Mode = ESTIMATE_THEN_VERIFY
                 /\ AskedTwice(j)
                 /\ AboveThreshold(FirstSize(j), MAX_CHUNK_SIZE)
                 /\ ~AboveThreshold(LastSize(j), MAX_CHUNK_SIZE) )
               => ( /\ ~InChunksToSplit(RangeOf(j).min, RangeOf(j).max)
                    /\ ~Planned(RangeOf(j).min, RangeOf(j).max) )
            /\ ( /\ Mode = ESTIMATE_ONLY
                 /\ AboveThreshold(FirstSize(j), MAX_CHUNK_SIZE) )
               => InChunksToSplit(RangeOf(j).min, RangeOf(j).max)

----------------------------------------------------------------------------
(* C4 *)

\* The splitChunk calls that came back with an ok field.
SplitCalls == {k \in CallIndexes : calls[k].op = "splitChunk" /\ Has(calls[k].resp, "ok")}

\* The changes other actors made to the range of splitChunk call k before
\* the run sent the command.
ChangesBefore(k) ==
    {e \in conc : e.min = calls[k].req.min /\ e.max = calls[k].req.max /\ ~e.commanded}

\* Another actor moved or re-ranged the chunk of splitChunk call k after the
\* run had estimated it and before the run sent the command.
ChangedSinceEstimate(k) == \E e \in ChangesBefore(k) : e.estimated

\* The range of splitChunk call k was only moved, and the last move brought it
\* back to the shard the command is addressed to.
MovedBack(k) ==
    /\ \A e \in ChangesBefore(k) : e.kind = "move"
    /\ \E e \in ChangesBefore(k) :
          /\ e.to = calls[k].to
          /\ \A f \in ChangesBefore(k) : f.n <= e.n

\* Another actor changed the catalog between the version read for the chunk
\* of splitChunk call k and the command.
ChangedSinceVersionRead(k) == \E e \in conc : e.fenced = calls[k].idx

\* The shard rejected splitChunk call k because the version token was stale.
RejectedAsStale(k) ==
    /\ calls[k].resp.ok # 1
    /\ calls[k].resp.errmsg = "stale shard version"

\* C4, as claimed: a splitChunk command for a chunk that another actor moved
\* or re-ranged between its estimation and the command is rejected because
\* the version token presented does not match, and leaves the catalog as it was.
C4_RejectedByVersionToken ==
    \A k \in SplitCalls :
        ChangedSinceEstimate(k) => RejectedAsStale(k) /\ ~calls[k].changed

\* C4 with the cause left out: such a command is rejected and leaves the
\* catalog as it was.  A chunk moved away and back before its version read
\* refutes it: the token is current, the shard owns the range, the chunk is split.
C4_RejectedWheneverChanged ==
    \A k \in SplitCalls :
        ChangedSinceEstimate(k) => calls[k].resp.ok # 1 /\ ~calls[k].changed

\* C4, amended: such a command is rejected and leaves the catalog as it was,
\* unless the chunk was only moved and is back on the shard it was discovered
\* on; a command that did split such a chunk found it moved back with no
\* change after its version read; and a rejection is for a stale version
\* token exactly when the catalog changed after the version read of that chunk.
C4_RejectedAndCatalogUnchanged ==
    \A k \in SplitCalls :
        /\ (ChangedSinceEstimate(k) /\ ~MovedBack(k))
              => calls[k].resp.ok # 1 /\ ~calls[k].changed
        /\ (ChangedSinceEstimate(k) /\ calls[k].changed)
              => MovedBack(k) /\ ~ChangedSinceVersionRead(k)
        /\ RejectedAsStale(k) <=> ChangedSinceVersionRead(k)

\* A chunk was moved between its estimation and its command, before the
\* version read, and was not back: the command was rejected with a current
\* token, the catalog unchanged.
C4_Witness ==
    \E k \in SplitCalls :
        /\ ChangedSinceEstimate(k)
        /\ ~MovedBack(k)
        /\ ~ChangedSinceVersionRead(k)
        /\ calls[k].resp.ok # 1
        /\ ~RejectedAsStale(k)
        /\ ~calls[k].changed

----------------------------------------------------------------------------
(* C5 *)

\* C5: the call just before every splitChunk command is the getShardVersion
\* read of the same chunk, and the token sent is what that read returned.
C5_VersionReadJustBeforeSplit ==
    \A k \in CallIndexes :
        calls[k].op = "splitChunk" =>
            /\ k > 1
            /\ calls[k - 1].op = "getShardVersion"
            /\ calls[k - 1].idx = calls[k].idx
            /\ calls[k].req.shardVersion =
                   <<calls[k - 1].resp.version, calls[k - 1].resp.versionEpoch>>

\* Two chunks were split in one run, the second with a newer token.
C5_Witness ==
    \E k, m \in CallIndexes :
        /\ k < m
        /\ calls[k].op = "splitChunk" /\ calls[m].op = "splitChunk"
        /\ calls[k].changed
        /\ calls[m].req.shardVersion # calls[k].req.shardVersion

----------------------------------------------------------------------------
(* C6 *)

\* The splitChunk call k came back with ok != 1.
SplitFailed(k) ==
    calls[k].op = "splitChunk" /\ Has(calls[k].resp, "ok") /\ calls[k].resp.ok # 1

\* The first splittable candidate after position m, or 0.
NextSplittable(m) ==
    IF \E n \in (m + 1)..Len(CHUNKS_TO_SPLIT) : CanSplit(CHUNKS_TO_SPLIT[n])
    THEN Min({n \in (m + 1)..Len(CHUNKS_TO_SPLIT) : CanSplit(CHUNKS_TO_SPLIT[n])})
    ELSE 0

\* C6: right after a failed splitChunk the run is at the next splittable
\* candidate's version read, or at the step 5 recount when there is none; and
\* a run that completed step 5 has sent one splitChunk command for every
\* splittable candidate and has recounted.
C6_FailedSplitDoesNotStopBatch ==
    /\ (calls # <<>> /\ SplitFailed(Len(calls))) =>
          IF NextSplittable(calls[Len(calls)].idx) # 0
          THEN pc = "getShardVersion" /\ i + 1 = NextSplittable(calls[Len(calls)].idx)
          ELSE pc = "findCollection" /\ step = 5
    /\ (pc = "done" /\ step = 5) =>
          /\ \A m \in 1..Len(CHUNKS_TO_SPLIT) :
                CanSplit(CHUNKS_TO_SPLIT[m]) => Cardinality(CallsAt("splitChunk", m)) = 1
          /\ calls[Len(calls)].op = "chunks.aggregate"
          /\ nowChunks = Len(CHUNKS)

\* A run whose first splitChunk failed, whose second succeeded, and which
\* recounted.
C6_Witness ==
    /\ pc = "done" /\ step = 5
    /\ \E k, m \in CallIndexes :
        /\ k < m
        /\ SplitFailed(k)
        /\ calls[m].op = "splitChunk" /\ calls[m].changed

----------------------------------------------------------------------------
(* C7 *)

\* C7, as claimed: a chunk that ESTIMATE_ONLY would select on the estimate the
\* run saw, and whose exact size exceeds the threshold, is selected under
\* ESTIMATE_THEN_VERIFY.
C7_NoFalseNegatives ==
    \A j \in Sampled :
        ( /\ Mode = ESTIMATE_THEN_VERIFY
          /\ Checked(j)
          /\ AskedTwice(j)
          /\ IsCandidate(checkChunkSize(FirstSize(j), FirstSize(j), MAX_CHUNK_SIZE,
                                        ESTIMATE_ONLY[1], ESTIMATE_ONLY[2]))
          /\ AboveThreshold(LastSize(j), MAX_CHUNK_SIZE) )
        => InChunksToSplit(RangeOf(j).min, RangeOf(j).max)

----------------------------------------------------------------------------
(* C8 *)

\* C8, as claimed: under ESTIMATE_THEN_VERIFY a chunk is asked a second time,
\* with estimate: false, exactly when its estimate exceeds the threshold; the
\* size returned is then the exact one; any other chunk is asked once.
C8_SecondQueryIffEstimateExceeds ==
    Mode = ESTIMATE_THEN_VERIFY =>
        \A j \in Sampled : Checked(j) =>
            /\ AskedTwice(j) <=> AboveThreshold(FirstSize(j), MAX_CHUNK_SIZE)
            /\ AskedTwice(j) =>
                  /\ calls[Max(SizeCalls(j))].req.estimate = FALSE
                  /\ checkChunkSize(FirstSize(j), LastSize(j), MAX_CHUNK_SIZE,
                                    OPTIMIZE_CHUNK_SIZE_CALCULATION,
                                    DOUBLECHECK_CHUNK_SIZE) = LastSize(j)
            /\ ~AskedTwice(j) => Cardinality(SizeCalls(j)) = 1

----------------------------------------------------------------------------
(* C9 *)

\* C9, as claimed: a sampled chunk is pushed to CHUNKS_TO_SPLIT exactly when
\* its resulting size (the exact one when it was asked twice) strictly exceeds
\* SPLIT_THRESHOLD; a chunk at the threshold is dropped.
C9_CandidateIffAboveThreshold ==
    \A j \in Sampled : Checked(j) =>
        ( InChunksToSplit(RangeOf(j).min, RangeOf(j).max)
          <=> AboveThreshold(LastSize(j), MAX_CHUNK_SIZE) )

----------------------------------------------------------------------------
(* C10 *)

\* Step 1 has filled CHUNKS and no split of this run has changed the catalog.
Step1Done ==
    /\ step = 1
    /\ pc \in {"checkChunkSize", "doubleCheck", "getSplitVector", "authorize",
               "getShardVersion", "splitChunk", "done"}
    /\ \A k \in CallIndexes : ~calls[k].changed

\* Step 2 has run to its end.
Step2Done ==
    \/ step = 1 /\ pc \in {"getSplitVector", "authorize", "getShardVersion",
                           "splitChunk", "done"}
    \/ step = 5 /\ pc # "aborted"

\* The calls of checkChunkSize for the j-th element of CHUNKS: its datasize
\* commands that carry the configured estimate flag.
CheckChunkSizeCalls(j) ==
    {k \in SizeCalls(j) : calls[k].req.estimate = OPTIMIZE_CHUNK_SIZE_CALCULATION}

\* C10: with SAMPLE = 1, step 1 puts every chunk of the namespace into CHUNKS
\* exactly once, and step 2 calls checkChunkSize exactly once for each.
C10_FullSampleCoversEveryChunkOnce ==
    SAMPLE = FullSample =>
        /\ Step1Done =>
              /\ Len(CHUNKS) = Cardinality(chunks)
              /\ \A c \in chunks :
                    Cardinality({j \in 1..Len(CHUNKS) :
                        CHUNKS[j].min = c.min /\ CHUNKS[j].max = c.max}) = 1
        /\ Step2Done =>
              /\ \A j \in 1..wasChunks : Cardinality(CheckChunkSizeCalls(j)) = 1
              /\ \A a, b \in {k \in CallIndexes : calls[k].op = "datasize"} :
                    (calls[a].idx # calls[b].idx)
                    => <<calls[a].req.min, calls[a].req.max>> #
                       <<calls[b].req.min, calls[b].req.max>>

\* A run with SAMPLE = 1 over three chunks that finished step 2 and went on.
C10_Witness ==
    /\ SAMPLE = FullSample
    /\ Step1Done
    /\ pc = "getSplitVector"
    /\ Cardinality(chunks) >= 3
    /\ Len(CHUNKS) = Cardinality(chunks)

----------------------------------------------------------------------------
(* C11 *)

\* The number of chunks the catalog held at step 1: what the first count of
\* getDatasizeArgs read.
CountAtStep1 == calls[Min({k \in CallIndexes : calls[k].op = "chunks.count"})].resp

\* The run has completed step 5.
Step5Done == pc = "done" /\ step = 5

\* C11, as claimed: the delta step 5 reports, nowChunks - wasChunks, is the
\* number of chunks of the catalog after step 4 minus the number at step 1,
\* whatever the sampling fraction.
C11_DeltaIsCatalogGrowth ==
    Step5Done => nowChunks - wasChunks = Cardinality(chunks) - CountAtStep1

----------------------------------------------------------------------------
(* C12 *)

\* The split keys the splitVector response gave for the m-th candidate.
SplitKeysFound(m) ==
    calls[Min(CallsAt("splitVector", m))].resp.splitKeys

\* The number of split keys found for the first m candidates.
RECURSIVE SplitPointsFound(_)
SplitPointsFound(m) ==
    IF m = 0 THEN 0 ELSE Len(SplitKeysFound(m)) + SplitPointsFound(m - 1)

\* The splitChunk commands of the run.
SplitCommands == {k \in CallIndexes : calls[k].op = "splitChunk"}

\* Every chunk was sampled, step 5 has ended and every split succeeded.
AllSampledAllSplit ==
    /\ SAMPLE = FullSample
    /\ Step5Done
    /\ \A k \in SplitCommands : Has(calls[k].resp, "ok") /\ calls[k].resp.ok = 1

\* C12: when all chunks are sampled and every split succeeds, there is one
\* splitChunk command per candidate with at least one split point, and the
\* count after the run exceeds the count before by the split points found.
C12_OneSplitPerSplittableAndCountGrows ==
    AllSampledAllSplit =>
        /\ Cardinality(SplitCommands) =
              Cardinality({m \in 1..Len(CHUNKS_TO_SPLIT) : Len(SplitKeysFound(m)) > 0})
        /\ nowChunks - wasChunks = SplitPointsFound(Len(CHUNKS_TO_SPLIT))

\* Two candidates with one split point each: two commands, two chunks more.
C12_Witness ==
    /\ AllSampledAllSplit
    /\ Len(CHUNKS_TO_SPLIT) = 2
    /\ \A m \in 1..2 : Len(SplitKeysFound(m)) = 1
    /\ Cardinality(SplitCommands) = 2
    /\ nowChunks - wasChunks = 2

----------------------------------------------------------------------------
(* C13, C14, C15 *)

\* The last remote call of the run.
LastCall == calls[Len(calls)]

\* C13, as claimed: a datasize response without a size affects its chunk only:
\* the chunk is not a candidate and the run goes on.
C13_SizeErrorIsLocal ==
    (calls # <<>> /\ LastCall.op = "datasize" /\ ~Has(LastCall.resp, "size"))
    => /\ pc \in {"checkChunkSize", "getSplitVector", "done"}
       /\ ~InChunksToSplit(LastCall.req.min, LastCall.req.max)

\* C14, as claimed: a splitVector response that is a failure or holds no split
\* keys affects its candidate only: the candidate stays non-splittable and the
\* run goes on.
C14_PlanningErrorIsLocal ==
    ( /\ calls # <<>>
      /\ LastCall.op = "splitVector"
      /\ (Has(LastCall.resp, "splitKeys") => Len(LastCall.resp.splitKeys) = 0) )
    => /\ pc \in {"getSplitVector", "authorize", "done"}
       /\ ~CanSplit(CHUNKS_TO_SPLIT[LastCall.idx])

\* C15, as claimed: a getShardVersion response that is a failure or lacks the
\* version affects its candidate only: no splitChunk is sent for it and the
\* run goes on to the next splittable candidate or to step 5.
C15_VersionErrorIsLocal ==
    (calls # <<>> /\ LastCall.op = "getShardVersion" /\ ~getShardVersionOk(LastCall.resp))
    => pc \in {"getShardVersion", "findCollection"}

----------------------------------------------------------------------------
(* C16 *)

\* C16: with the namespace absent from config.collections the run makes no
\* call after the findOne that misses it; with no chunk it makes no call after
\* the count; neither run ends normally, and no datasize, splitVector or
\* splitChunk request is sent.
C16_AbortsBeforeStorageRequests ==
    /\ ~nsPresent =>
          /\ pc \in ConstructionSteps \cup {"findCollection", "aborted"}
          /\ \A k \in CallIndexes :
                calls[k].op \in ConstructionOps \cup {"collections.findOne"}
          /\ \A k \in CallIndexes :
                calls[k].op = "collections.findOne" => Len(calls) = k
    /\ (nsPresent /\ chunks = {}) =>
          /\ pc \in ConstructionSteps \cup {"findCollection", "countChunks", "aborted"}
          /\ \A k \in CallIndexes :
                calls[k].op \in ConstructionOps \cup {"collections.findOne", "chunks.count"}
          /\ \A k \in CallIndexes :
                calls[k].op = "chunks.count" => Len(calls) = k

\* A run on a namespace without chunks, aborted at the count.
C16_Witness ==
    /\ nsPresent
    /\ chunks = {}
    /\ pc = "aborted"
    /\ calls # <<>>
    /\ LastCall.op = "chunks.count"
    /\ LastCall.resp = 0

----------------------------------------------------------------------------
(* C17 *)

\* C17, as claimed: a configured maximum chunk size that is zero or negative
\* aborts the run at getChunkSize, before any other call.
C17_NonPositiveMaxAborts ==
    \A k \in CallIndexes :
        ( /\ calls[k].op = "settings.findOne"
          /\ calls[k].resp.present
          /\ Has(calls[k].resp, "value")
          /\ calls[k].resp.value <= 0 )
        => pc = "aborted" /\ Len(calls) = k

----------------------------------------------------------------------------
(* C18 *)

\* The reads of getDatasizeArgs.
DiscoveryOps == {"collections.findOne", "chunks.count", "chunks.aggregate"}

\* Call b belongs to the rediscovery of step 5: a read of getDatasizeArgs made
\* after step 2 has started.
Rediscovery(b) ==
    /\ calls[b].op \in DiscoveryOps
    /\ \E d \in 1..(b - 1) : calls[d].op = "datasize"

\* C18: the calls of a run are in stage order: every datasize before every
\* splitVector, every splitVector before the privilege check, every version
\* read and every splitChunk, every splitChunk before the rediscovery of
\* step 5, and nothing but the rediscovery after it has begun.
C18_CallsInStageOrder ==
    LET sizing == {k \in CallIndexes : calls[k].op = "datasize"}
        planning == {k \in CallIndexes : calls[k].op = "splitVector"}
        executing == {k \in CallIndexes :
                        calls[k].op \in {"connectionStatus", "getShardVersion",
                                         "splitChunk"}}
        verifying == {k \in CallIndexes : Rediscovery(k)}
    IN /\ \A a \in sizing : \A b \in planning : a < b
       /\ \A a \in planning : \A b \in executing : a < b
       /\ \A a \in executing : \A b \in verifying :
             calls[a].op = "splitChunk" => a < b
       /\ \A a \in verifying : \A b \in CallIndexes : a < b => b \in verifying

\* A finished run that sized, planned and split two chunks and rediscovered.
C18_Witness ==
    /\ Step5Done
    /\ Cardinality({k \in CallIndexes : calls[k].op = "datasize"}) >= 2
    /\ Cardinality({k \in CallIndexes : calls[k].op = "splitVector"}) = 2
    /\ Cardinality(SplitCommands) = 2
    /\ Rediscovery(Len(calls))

----------------------------------------------------------------------------
(* C19 *)

\* Step 2 has run to its end: checkChunkSize has returned for every element
\* of CHUNKS.
Step2Ended ==
    /\ wasChunks > 0
    /\ pc \notin {"checkChunkSize", "doubleCheck"}
    /\ \A j \in 1..wasChunks : Checked(j)

\* The calls that follow step 2 in a run that goes on.
CallsAfterStep2 ==
    {k \in CallIndexes :
        \/ calls[k].op \in {"splitVector", "connectionStatus", "getShardVersion",
                            "splitChunk"}
        \/ Rediscovery(k)}

\* C19: when step 2 ends with zero candidates the run ends there, whatever
\* DO_SPLIT: no splitVector, no privilege check, no version read, no
\* splitChunk and no rediscovery.
C19_NoCandidatesEndsRun ==
    (getCouldSplitChunkCounts(CHUNKS_TO_SPLIT) = 0 /\ Step2Ended)
    => /\ pc = "done"
       /\ step = 1
       /\ CallsAfterStep2 = {}

\* A run with DO_SPLIT true that sized two chunks and kept none.
C19_Witness ==
    /\ DO_SPLIT = TRUE
    /\ Step2Ended
    /\ wasChunks >= 2
    /\ getCouldSplitChunkCounts(CHUNKS_TO_SPLIT) = 0
    /\ pc = "done"

----------------------------------------------------------------------------
(* C20 *)

\* Step 3 has run to its end: getSplitVector has returned for every candidate.
Step3Ended ==
    /\ Len(CHUNKS_TO_SPLIT) > 0
    /\ pc # "getSplitVector"
    /\ \A m \in 1..Len(CHUNKS_TO_SPLIT) :
          /\ CallsAt("splitVector", m) # {}
          /\ \A k \in CallsAt("splitVector", m) : Has(calls[k].resp, "splitKeys")

\* The calls that follow step 3 in a run that goes on.
CallsAfterStep3 ==
    {k \in CallIndexes :
        \/ calls[k].op \in {"connectionStatus", "getShardVersion", "splitChunk"}
        \/ Rediscovery(k)}

\* C20: when step 3 ends with no splittable candidate the run ends there, also
\* with DO_SPLIT true: no privilege check, no version read, no splitChunk and
\* no rediscovery.
C20_NoSplittableEndsRun ==
    (Step3Ended /\ getSplitChunkCounts(CHUNKS_TO_SPLIT) = 0)
    => /\ pc = "done"
       /\ step = 1
       /\ CallsAfterStep3 = {}

\* A run with DO_SPLIT true that planned two candidates and found no split
\* point for either.
C20_Witness ==
    /\ DO_SPLIT = TRUE
    /\ Step3Ended
    /\ Len(CHUNKS_TO_SPLIT) >= 2
    /\ getSplitChunkCounts(CHUNKS_TO_SPLIT) = 0
    /\ pc = "done"

----------------------------------------------------------------------------
(* C21 *)

\* No two calls of K were made for the same position of a forEach or for the
\* same range.
NoneRepeated(K) ==
    \A a, b \in K :
        (a # b) => /\ calls[a].idx # calls[b].idx
                   /\ <<calls[a].req.min, calls[a].req.max>> #
                      <<calls[b].req.min, calls[b].req.max>>

\* C21: nothing is retried within a run: a candidate gets at most one
\* splitVector query, at most one version read and at most one splitChunk
\* command, also after a splitChunk that failed.
C21_NothingRetried ==
    /\ NoneRepeated({k \in CallIndexes : calls[k].op = "splitVector"})
    /\ NoneRepeated(SplitCommands)
    /\ \A a, b \in {k \in CallIndexes : calls[k].op = "getShardVersion"} :
          (a # b) => calls[a].idx # calls[b].idx

\* A run that ended after a splitChunk of it had failed.
C21_Witness ==
    /\ Step5Done
    /\ \E k \in SplitCommands : SplitFailed(k)

----------------------------------------------------------------------------
(* C22 *)

\* max(1, round(cnt * percentage)), halves rounded up.
RoundedSampleSize(cnt, percentage) ==
    Max({1, (2 * cnt * percentage[1] + 2 ^ percentage[2]) \div (2 * 2 ^ percentage[2])})

\* C22, as claimed: step 1 samples max(1, round(count * SAMPLE)) chunks, a
\* number between 1 and count.
C22_SampleSizeIsRounded ==
    (step = 1 /\ wasChunks > 0)
    => /\ wasChunks = RoundedSampleSize(count, SAMPLE)
       /\ 1 <= wasChunks /\ wasChunks <= count

----------------------------------------------------------------------------
(* C23 *)

\* The documents the aggregation of step 1 returned.
Discovered == calls[Min({k \in CallIndexes : calls[k].op = "chunks.aggregate"})].resp

\* The range [lo, hi) was discovered in step 1 as owned by `shard`.
DiscoveredAs(lo, hi, shard) ==
    \E n \in 1..Len(Discovered) :
        /\ Discovered[n].min = lo /\ Discovered[n].max = hi
        /\ Discovered[n].shard = shard

\* C23: every splitVector request carries MAX_CHUNK_SIZE as maxChunkSizeBytes,
\* the namespace, the key pattern and a range discovered in step 1, and goes
\* to the shard that range was discovered on.
C23_SplitVectorRequest ==
    \A k \in CallIndexes :
        calls[k].op = "splitVector" =>
            /\ calls[k].req.maxChunkSizeBytes = MAX_CHUNK_SIZE
            /\ calls[k].req.splitVector = NS
            /\ calls[k].req.keyPattern = KeyPattern
            /\ DiscoveredAs(calls[k].req.min, calls[k].req.max, calls[k].to)

\* Two splitVector requests sent to different shards, the threshold differing
\* from the maximum chunk size.
C23_Witness ==
    /\ MAX_CHUNK_SIZE > 0
    /\ \E a, b \in CallIndexes :
          /\ calls[a].op = "splitVector" /\ calls[b].op = "splitVector"
          /\ calls[a].to # calls[b].to

----------------------------------------------------------------------------
(* C24 *)

\* C24, as claimed: without double-check (EXACT and ESTIMATE_ONLY) a sampled
\* chunk qualifies, and has its split points calculated when step 3 runs to
\* its end, exactly when its measured size is at or above SPLIT_THRESHOLD.
C24_QualifiesIffAtOrAboveThreshold ==
    Mode # ESTIMATE_THEN_VERIFY =>
        \A j \in Sampled : Checked(j) =>
            /\ InChunksToSplit(RangeOf(j).min, RangeOf(j).max)
                  <=> AtOrAboveThreshold(FirstSize(j), MAX_CHUNK_SIZE)
            /\ Step3Ended =>
                  ( Planned(RangeOf(j).min, RangeOf(j).max)
                    <=> AtOrAboveThreshold(FirstSize(j), MAX_CHUNK_SIZE) )

----------------------------------------------------------------------------
(* C25 *)

\* C25: every entry of CHUNKS_TO_SPLIT has a canSplit field, true exactly when
\* a non-empty list of split keys is stored for it; the list stored is the one
\* its splitVector response held, and canSplit is false until that response.
C25_CanSplitIffSplitKeysStored ==
    \A m \in 1..Len(CHUNKS_TO_SPLIT) :
        LET c == CHUNKS_TO_SPLIT[m]
        IN /\ Has(c, "canSplit")
           /\ (c.canSplit = TRUE) <=> (Has(c, "splitVector") /\ Len(c.splitVector) > 0)
           /\ (c.canSplit = TRUE) =>
                 /\ CallsAt("splitVector", m) # {}
                 /\ c.splitVector = SplitKeysFound(m)

\* After step 3: one candidate with two split keys stored and canSplit true,
\* one whose response held none and canSplit false.
C25_Witness ==
    /\ Step3Ended
    /\ \E m, n \in 1..Len(CHUNKS_TO_SPLIT) :
          /\ CHUNKS_TO_SPLIT[m].canSplit = TRUE
          /\ Len(CHUNKS_TO_SPLIT[m].splitVector) = 2
          /\ CHUNKS_TO_SPLIT[n].canSplit = FALSE
          /\ Len(SplitKeysFound(n)) = 0

----------------------------------------------------------------------------
(* C26 *)

\* C26: every splitChunk command carries the namespace and key pattern, a range
\* and owner shard as discovered in step 1, and the split keys of the
\* splitVector response obtained for that same range in step 3; it is sent to
\* that owner shard, and the candidate's stored fields still equal them.
C26_SplitChunkRequest ==
    \A k \in SplitCommands :
        LET r == calls[k].req
            m == calls[k].idx
            v == Min(CallsAt("splitVector", m))
            c == CHUNKS_TO_SPLIT[m]
        IN /\ r.splitChunk = NS
           /\ r.keyPattern = KeyPattern
           /\ DiscoveredAs(r.min, r.max, r.from)
           /\ calls[k].to = r.from
           /\ CallsAt("splitVector", m) # {}
           /\ calls[v].req.min = r.min /\ calls[v].req.max = r.max
           /\ calls[v].to = r.from
           /\ r.splitKeys = calls[v].resp.splitKeys
           /\ Len(r.splitKeys) > 0
           /\ c.datasize = r.splitChunk /\ c.shard = r.from
           /\ c.min = r.min /\ c.max = r.max /\ c.keyPattern = r.keyPattern
           /\ c.splitVector = r.splitKeys

\* Two splitChunk commands of one run went to different shards, each with the
\* keys found for its own range.
C26_Witness ==
    \E a, b \in SplitCommands :
        /\ calls[a].to # calls[b].to
        /\ calls[a].req.splitKeys # calls[b].req.splitKeys

----------------------------------------------------------------------------
(* C27 *)

\* The version the catalog held, when step 1 read it, for the range [lo, hi).
DiscoveredVersion(lo, hi) ==
    LET n == CHOOSE n \in 1..Len(Discovered) :
                 Discovered[n].min = lo /\ Discovered[n].max = hi
    IN Discovered[n].lastmod

\* The highest chunk version of the namespace when the call k was made, the
\* run being the only writer: the highest one now, less one for every split
\* committed by the call k or a later one.
NamespaceVersionAt(k) ==
    CollVersion(chunks)
        - Cardinality({j \in SplitCommands : j >= k /\ calls[j].changed})

\* C27, as claimed: the version token of a splitChunk command is the version of
\* that chunk's own document in the catalog, with the epoch.
C27_TokenIsChunksOwnVersion ==
    \A k \in SplitCommands :
        calls[k].req.shardVersion =
            <<DiscoveredVersion(calls[k].req.min, calls[k].req.max), epoch>>

\* C27, amended: the version token of a splitChunk command is the answer to a
\* getShardVersion command that names the namespace only, and it is the
\* highest chunk version of the namespace at that time, with the epoch.
C27_TokenIsNamespaceVersion ==
    \A k \in SplitCommands :
        /\ calls[k - 1].op = "getShardVersion"
        /\ calls[k - 1].req = NS
        /\ calls[k - 1].to = "mongos"
        /\ calls[k].req.shardVersion = <<NamespaceVersionAt(k), epoch>>

\* A split was committed for a chunk whose own version is lower than the
\* token its command carried.
C27_Witness ==
    \E k \in SplitCommands :
        /\ calls[k].changed
        /\ DiscoveredVersion(calls[k].req.min, calls[k].req.max)
               < calls[k].req.shardVersion[1]

----------------------------------------------------------------------------
(* C28 *)

\* The run has ended: DONE was printed, or an assertion failed.
Ended == pc \in {"done", "aborted"}

\* The stage of the MAIN SECTION the run is in: steps 1 to 5, and 6 once the
\* run has ended.
Stage ==
    CASE Ended -> 6
      [] pc \in ConstructionSteps -> 1
      [] pc \in {"findCollection", "countChunks", "sampleChunks"} ->
             IF step = 1 THEN 1 ELSE 5
      [] pc \in {"checkChunkSize", "doubleCheck"} -> 2
      [] pc = "getSplitVector" -> 3
      [] pc \in {"authorize", "getShardVersion", "splitChunk"} -> 4

\* C28: every run ends, with DONE or with a failed assertion, whatever the
\* remote responses are, and it stays ended; no step takes the run back to a
\* stage it has left, and every step that does not end the run issues one more
\* remote call or moves the run forward.
C28_TerminatesAndNeverGoesBack ==
    /\ <>[]Ended
    /\ [][ /\ Stage' >= Stage
           /\ Len(calls') > Len(calls) \/ Stage' > Stage ]_vars

\* A run in estimate-then-verify mode went through all five steps, split two
\* chunks and ended with DONE.
C28_Witness ==
    /\ pc = "done" /\ step = 5
    /\ Mode = ESTIMATE_THEN_VERIFY
    /\ Cardinality(SplitCommands) >= 2

----------------------------------------------------------------------------
(* C29 *)

\* The connection that answered `res` holds a privilege on the cluster
\* resource whose actions include "internal".
GrantsInternal(res) ==
    /\ "ok" \in DOMAIN res /\ res.ok = 1
    /\ LET L == res.authInfo.authenticatedUserPrivileges
       IN \E n \in 1..Len(L) :
             /\ "cluster" \in DOMAIN L[n].resource
             /\ L[n].resource.cluster = TRUE
             /\ "internal" \in {L[n].actions[a] : a \in 1..Len(L[n].actions)}

\* The privilege checks of the run, one connectionStatus call per connection
\* of CON_MAP (there are some when splits were requested and a candidate is
\* splittable); the last of them, made on the last connection; and whether
\* every connection asked up to call k answered and holds the privilege.
PrivilegeChecks == {k \in CallIndexes : calls[k].op = "connectionStatus"}
LastChecks == {k \in PrivilegeChecks : calls[k].idx = Len(ShardSeq)}
Passed(k) ==
    \A n \in 1..calls[k].idx :
        /\ k - calls[k].idx + n \in PrivilegeChecks
        /\ calls[k - calls[k].idx + n].idx = n
        /\ GrantsInternal(calls[k - calls[k].idx + n].resp)
PassedChecks == {k \in LastChecks : Passed(k)}

\* C29: the connections are asked one after the other, in the order of
\* CON_MAP.  After the check of the last connection a version read follows
\* exactly when every shard connection holds "internal" on the cluster
\* resource; otherwise that check is the last remote call of the run (no
\* version read, no splitChunk, no rediscovery) and the run ends with DONE.
\* A connection that does not answer ends the run on an error.  No version
\* read or splitChunk is issued without a passed check before it.
C29_SplitsIffInternalEverywhere ==
    /\ \A k \in PrivilegeChecks :
          /\ calls[k].to = ShardSeq[calls[k].idx]
          /\ IF ~getPrivilegesOk(calls[k].resp)
             THEN Len(calls) = k /\ pc = "aborted"
             ELSE IF k \notin LastChecks
             THEN IF Len(calls) = k
                  THEN pc = "authorize"
                  ELSE /\ calls[k + 1].op = "connectionStatus"
                       /\ calls[k + 1].idx = calls[k].idx + 1
             ELSE IF k \in PassedChecks
             THEN IF Len(calls) = k
                  THEN pc = "getShardVersion"
                  ELSE calls[k + 1].op = "getShardVersion"
             ELSE Len(calls) = k /\ pc = "done"
    /\ \A k \in CallIndexes :
          calls[k].op \in {"getShardVersion", "splitChunk"} =>
              \E j \in PassedChecks : j < k
    /\ (DO_SPLIT /\ Step3Ended /\ canSplitCount > 0 /\ pc # "authorize")
          => PrivilegeChecks # {}

\* Splits were requested and a candidate was splittable, the first connection
\* held the privilege and the last held "internal" on a database only: the
\* run ended at the check of the last connection.
C29_Witness ==
    /\ DO_SPLIT /\ pc = "done"
    /\ \E k \in LastChecks :
          /\ k = Len(calls)
          /\ GrantsInternal(calls[k - 1].resp)
          /\ calls[k].resp.ok = 1
          /\ Len(calls[k].resp.authInfo.authenticatedUserPrivileges) = 2
          /\ ~GrantsInternal(calls[k].resp)

----------------------------------------------------------------------------
(* C30 *)

\* C30, as claimed: in the variant, after a splitVector response that carries
\* splitKeys the run has not stopped on an error at that call, and the
\* candidate is canSplit with those keys stored exactly when the array is not
\* empty.
C30_Part000PlanningCompletes ==
    \A k \in CallIndexes :
        (calls[k].op = "splitVector" /\ Has(calls[k].resp, "splitKeys")) =>
            LET c == CHUNKS_TO_SPLIT[calls[k].idx]
                keys == calls[k].resp.splitKeys
            IN /\ ~(pc = "aborted" /\ Len(calls) = k)
               /\ c.canSplit = (Len(keys) > 0)
               /\ Len(keys) > 0 => Has(c, "splitVector") /\ c.splitVector = keys

====
